---- MODULE Spec2Model ----
(***************************************************************************)
(* Model of the programmable-router node of mininet/node.py:               *)
(* the interface registry (Node), the VRF / bridge-domain model             *)
(* (DockerRouter) and the table provisioning and startup sequence           *)
(* (DockerP4Router).  One node is modelled; the orchestrator is a single    *)
(* thread, so a topology call never interleaves with a running start().     *)
(***************************************************************************)
EXTENDS Integers, Sequences, FiniteSets, TLC

\* ---------------------------------------------------------------- bounds
MaxObjs == 2        \* Intf objects constructed on the node
MaxStarts == 2      \* invocations of start()
MaxAttempts == 2    \* iterations of the table-installation loop per start()
MaxMembers == 2     \* length of one bridge domain's membership list
MaxSubnetLines == 1 \* entries appended to the subnet batch before start()
MaxBdObjs == 3      \* Intf objects of a node with two bridge domains
MaxConfigLines == 3 \* calls of addRoutingConfig
MaxAcl == 1         \* calls of addACLConfig
MaxShells == 3      \* shell processes a node spawns
MaxCmds == 2        \* calls of Docker.cmd
MaxSubnetBatch == 2 \* entries of a subnet batch built by several calls

\* ------------------------------------------------------ program constants
portBase == 0
cpu_input_port == 80
cpu_output_port == 81
DefaultTable == 0
LocalTable == 255
MainTable == 254

\* ------------------------------------------------------- input domains
IntfNames == {"eth0", "eth1"}
Vnis == {100}
BdVnis == {100, 200}
VrfNames == {"default", "red"}
TableIds == {10}
\* table IDs for addVRF that include a kernel table of the seed
SeedTableIds == {10, MainTable}
ExplicitPorts == {3}
\* explicit ports at the engine's CPU ports
CpuSidePorts == {cpu_input_port - 1, cpu_input_port}
NonePort == -1      \* port=None
NoneVal == -1       \* Python None inside a written line
NoBDI == 0
Tables == {"Startup", "Subnet", "ACL"}
LookupFiles == {"TableVrfDict", "IntfPortDict"}
Agents == {"rt_mediator", "runtime_api", "switch_agent", "packet_injector",
           "bgp_adv_modifier"}

\* the constructor arguments a node is built with in the start-up runs
CfgChoices ==
    {[a \in Agents |-> a \in S] :
        S \in {Agents, {}, {"runtime_api", "rt_mediator"},
               {"runtime_api", "switch_agent", "packet_injector"}}}

\* keys of daemonConfigs / daemonsOptions that the runs use
Protocols == {"zebra", "bgpd"}
NoProtocol == "None"     \* protocol=None
ConfigLines == {"", "router bgp 1"}
\* the file setupGeneralConfig writes: /etc/<software>/<software>.conf
GeneralFile == "software"

\* an optional argument that may be None, an int or a str
None == [t |-> "none", i |-> 0, s |-> ""]
IntArg(n) == [t |-> "int", i |-> n, s |-> ""]
StrArg(x) == [t |-> "str", i |-> 0, s |-> x]
\* the arguments addACLConfig is called with
AclAddrs == {None, StrArg("10.0.0.1")}
AclProtocols == {None, IntArg(6), IntArg(17), IntArg(1), StrArg("6&&&0xff")}
AclPorts == {None, IntArg(80), StrArg("53&&&0xffff")}
\* the arguments setAdminConfig is called with
AdminChoices ==
    {[ip |-> StrArg("10.0.0.100"), port |-> IntArg(5000)],
     [ip |-> StrArg("10.0.0.200"), port |-> IntArg(6000)]}

BrName(vni) == IF vni = 100 THEN "br100" ELSE "br200"

\* ------------------------------------------- insertion-ordered dictionaries
\* A Python dict whose iteration order is observable is a sequence of
\* <<key, value>> pairs: a new key goes to the end, an existing key keeps
\* its place.
DictKeys(d) == {d[i][1] : i \in 1..Len(d)}
DictHas(d, k) == k \in DictKeys(d)
DictIdx(d, k) == CHOOSE i \in 1..Len(d) : d[i][1] = k
DictGet(d, k) == d[DictIdx(d, k)][2]
DictSet(d, k, v) ==
    IF DictHas(d, k) THEN [d EXCEPT ![DictIdx(d, k)] = <<k, v>>]
    ELSE Append(d, <<k, v>>)
\* variant: the pop is missing and the key stays
DictPopKeepsKey(d, k) == d

DictPop(d, k) ==
    LET i == DictIdx(d, k)
    IN  SubSeq(d, 1, i - 1) \o SubSeq(d, i + 1, Len(d))

SetMax(S) == CHOOSE x \in S : \A y \in S : y <= x
Range(f) == {f[x] : x \in DOMAIN f}
FunDel(f, k) == [x \in (DOMAIN f) \ {k} |-> f[x]]
FunSet(f, k, v) == [x \in (DOMAIN f) \cup {k} |-> IF x = k THEN v ELSE f[x]]

Line(t, k, v, ps) == [t |-> t, k |-> k, v |-> v, ps |-> ps]
NoFile == [exists |-> FALSE, lines |-> <<>>]
File(ls) == [exists |-> TRUE, lines |-> ls]

VARIABLES
    objs,        \* Intf objects by identity: <<name, VRF tag, BDI tag>> records
    intfs,       \* Node.intfs: port -> Intf
    ports,       \* Node.ports: Intf -> port
    nameToIntf,  \* Node.nameToIntf: name -> Intf
    effIntfs,    \* DockerRouter.effIntfs: name -> port (ordered)
    vrfDict,     \* DockerRouter.vrfDict: VRF name -> table id
    tableVrfDict,\* DockerRouter.tableVrfDict: kernel table -> VRF id (ordered)
    vrfVniDict,  \* DockerRouter.vrfVniDict: VRF name -> <<l3vni, l2 list>> (ordered)
    bdIntfDict,  \* DockerRouter.bdIntfDict: BDI -> Intf list (ordered)
    raised,      \* the exception the last topology call raised, or "none"
    autoPorts,   \* ports handed out by newPort() since the last delIntf
    autoEmpty,   \* the registry was empty when autoPorts was started
    assigned,    \* per Intf object: the port addIntf gave it, and whether
                 \* newPort() chose it
    objLimit,    \* Intf objects the topology script constructs at most
    subnetLimit, \* subnet entries the topology script appends at most
    l3Replaced,  \* an addL3VNI call has put a VNI where another one was
    cfg,         \* constructor arguments: which agent paths are not None
    pc,          \* position of the orchestrator inside start()
    starts,      \* invocations of start() so far
    args,        \* the bindings '-i port@name' merged by start()
    hostFiles,   \* ./<kind>-<name>.txt on the orchestrator's file system
    ctrFiles,    \* files in the container's /tmp
    kernel,      \* kernel-level facts of the container
    procs,       \* background processes launched in the container
    engine,      \* the forwarding engine as seen from outside
    marker,      \* content of /rt_mediator_init_succ
    aclConfig,   \* DockerP4Router.aclConfig: list of 7-field entries
    cp,          \* check_point1..3 of the running start()
    inv,         \* what the running invocation of start() has issued
    generalConfig, \* DockerRouter.generalConfig: list of lines
    daemonConfigs, \* DockerRouter.daemonConfigs: protocol -> list of lines
    confFiles,   \* /etc/<software>/<name>.conf in the container, as lines
    container,   \* the container is in docker's list of running containers
    shell,       \* Docker.shell: 0 for None, else the Popen object
    shells,      \* the shell processes spawned so far, by Popen object
    waiting,     \* Node.waiting
    dpc,         \* position inside Docker.cmd() or Docker.terminate()
    pending,     \* the command of the running cmd() call
    result,      \* what the cmd() calls made so far returned
    term,        \* what the terminate() calls made so far did
    agentReady,  \* the switch agent has finished initializing
    admin,       \* adminIP and faultReportCollectionPort
    debug,       \* the debug argument start() is called with
    mediatorCmd  \* the command start() launched the route mediator with

routeVars == <<generalConfig, daemonConfigs, confFiles>>
shellVars == <<container, shell, shells, waiting, dpc, pending, result, term>>
\* setAdminConfig, the debug argument of start() and the mediator's command
adminVars == <<admin, debug, mediatorCmd>>
\* what the topology calls and start() leave alone
restVars == <<cfg, objLimit, subnetLimit,
              l3Replaced, generalConfig, daemonConfigs,
              shellVars, agentReady, adminVars>>
\* what neither the topology calls nor the table provisioning write
otherVars == <<restVars, confFiles, aclConfig>>
regVars == <<objs, intfs, ports, nameToIntf, effIntfs, autoPorts, autoEmpty,
             assigned>>
vrfVars == <<vrfDict, tableVrfDict, vrfVniDict, bdIntfDict>>
topoVars == <<regVars, vrfVars, raised>>
seqVars == <<pc, starts, args, cp, inv>>
ctrVars == <<ctrFiles, kernel, procs, engine, marker>>
vars == <<topoVars, otherVars, seqVars, hostFiles, ctrVars>>

\* ------------------------------------------------------------ registry
Reg == [objs |-> objs, intfs |-> intfs, ports |-> ports,
        nameToIntf |-> nameToIntf, effIntfs |-> effIntfs]

\* variant: the highest port in use is handed out again
newPortNoIncrement(ps) ==
    IF DOMAIN ps # {} THEN SetMax(Range(ps)) ELSE portBase

\* Node.newPort over the interface-to-port map ps
newPort(ps) ==
    IF DOMAIN ps # {} THEN SetMax(Range(ps)) + 1 ELSE portBase

\* Node.addIntf(intf, port): the three mappings
Node_addIntf(r, o, port) ==
    LET p == IF port = NonePort THEN newPort(r.ports) ELSE port
    IN  [r EXCEPT !.intfs = FunSet(@, p, o),
                  !.ports = FunSet(@, o, p),
                  !.nameToIntf = FunSet(@, r.objs[o].name, o)]

\* DockerRouter.addIntf: the super call, then the effective interface entry
addIntf(r, o, port) ==
    LET r1 == Node_addIntf(r, o, port)
    IN  [r1 EXCEPT !.effIntfs = DictSet(@, r1.objs[o].name, r1.ports[o])]

\* Intf(name, node=self, port=port): a fresh object that registers itself
NewIntf(r, name, port) ==
    LET o == Len(r.objs) + 1
        r1 == [r EXCEPT !.objs =
                 Append(@, [name |-> name, vrf |-> "default", bdi |-> NoBDI])]
    IN  addIntf(r1, o, port)

\* Node.delIntf(intf); err names the statement that raised KeyError
delIntf(r, o) ==
    IF o \notin DOMAIN r.ports THEN [reg |-> r, err |-> "none"]
    ELSE LET port == r.ports[o] IN
         IF port \notin DOMAIN r.intfs THEN [reg |-> r, err |-> "KeyError"]
         ELSE LET r1 == [r EXCEPT !.intfs = FunDel(@, port),
                                  !.ports = FunDel(@, o)]
              IN  IF r.objs[o].name \notin DOMAIN r.nameToIntf
                  THEN [reg |-> r1, err |-> "KeyError"]
                  ELSE [reg |-> [r1 EXCEPT !.nameToIntf =
                                     FunDel(@, r.objs[o].name)],
                        err |-> "none"]

SetReg(r) ==
    /\ objs' = r.objs
    /\ intfs' = r.intfs
    /\ ports' = r.ports
    /\ nameToIntf' = r.nameToIntf
    /\ effIntfs' = r.effIntfs

\* start() runs to completion before the orchestrator makes another call
Idle == pc = "idle"

\* variant: a new interface is bound to a running engine at once
AddIntfRebinding(name, port) ==
    /\ Idle
    /\ Len(objs) < objLimit
    /\ SetReg(NewIntf(Reg, name, port))
    /\ raised' = "none"
    /\ assigned' = Append(assigned, [port |-> ports'[Len(objs) + 1],
                                     auto |-> port = NonePort])
    /\ IF port = NonePort
       THEN /\ autoPorts' = Append(autoPorts, ports'[Len(objs) + 1])
            /\ autoEmpty' = IF autoPorts = <<>> THEN DOMAIN ports = {}
                            ELSE autoEmpty
       ELSE UNCHANGED <<autoPorts, autoEmpty>>
    /\ engine' = IF procs["bmv2"] > 0
                 THEN [engine EXCEPT !.bindings =
                          Append(@, <<ports'[Len(objs) + 1], name>>)]
                 ELSE engine
    /\ UNCHANGED <<vrfVars, otherVars, seqVars, hostFiles, ctrFiles,
                   kernel, procs, marker>>

\* topology code: Intf(name, node) for one end of a link, port given or not
AddIntf(name, port) ==
    /\ Idle
    /\ Len(objs) < objLimit
    /\ SetReg(NewIntf(Reg, name, port))
    /\ raised' = "none"
    /\ assigned' = Append(assigned, [port |-> ports'[Len(objs) + 1],
                                     auto |-> port = NonePort])
    /\ IF port = NonePort
       THEN /\ autoPorts' = Append(autoPorts, ports'[Len(objs) + 1])
            /\ autoEmpty' = IF autoPorts = <<>> THEN DOMAIN ports = {}
                            ELSE autoEmpty
       ELSE UNCHANGED <<autoPorts, autoEmpty>>
    /\ UNCHANGED <<vrfVars, otherVars, seqVars, hostFiles, ctrVars>>

DelIntf(o) ==
    /\ Idle
    /\ o \in 1..Len(objs)
    /\ LET res == delIntf(Reg, o)
       IN  /\ SetReg(res.reg)
           /\ raised' = res.err
    /\ autoPorts' = <<>>
    /\ autoEmpty' = FALSE
    /\ UNCHANGED assigned
    /\ UNCHANGED <<vrfVars, otherVars, seqVars, hostFiles, ctrVars>>

\* ------------------------------------------------- VRF / bridge domains
\* DockerRouter.addVRF
AddVRF(name, tableId) ==
    /\ Idle
    /\ vrfDict' = FunSet(vrfDict, name, tableId)
    /\ tableVrfDict' = DictSet(tableVrfDict, tableId, tableId)
    /\ vrfVniDict' = DictSet(vrfVniDict, name, <<NoneVal, <<>>>>)
    /\ raised' = "none"
    /\ UNCHANGED <<regVars, bdIntfDict, otherVars, seqVars, hostFiles,
                   ctrVars>>

\* DockerP4Router.addL2VNI: DockerRouter.addL2VNI, then effIntfs.pop(brname)
AddL2VNI(vni, vrf) ==
    /\ Idle
    /\ Len(objs) < objLimit
    /\ LET br == Len(objs) + 1
           r1 == NewIntf(Reg, BrName(vni), NonePort)
           r2 == [r1 EXCEPT !.objs[br].vrf = vrf, !.objs[br].bdi = vni]
       IN  /\ autoPorts' = Append(autoPorts, r1.ports[br])
           /\ assigned' = Append(assigned, [port |-> r1.ports[br],
                                            auto |-> TRUE])
           /\ autoEmpty' = IF autoPorts = <<>> THEN DOMAIN ports = {}
                           ELSE autoEmpty
           /\ IF ~DictHas(vrfVniDict, vrf)
              THEN \* self.vrfVniDict[vrf] raises KeyError
                   /\ SetReg(r2)
                   /\ raised' = "KeyError"
                   /\ UNCHANGED vrfVars
              ELSE /\ vrfVniDict' = DictSet(vrfVniDict, vrf,
                          <<DictGet(vrfVniDict, vrf)[1],
                            Append(DictGet(vrfVniDict, vrf)[2], vni)>>)
                   /\ bdIntfDict' = DictSet(bdIntfDict, vni, <<>>)
                   /\ SetReg([r2 EXCEPT !.effIntfs = DictPop(@, BrName(vni))])
                   /\ raised' = "none"
                   /\ UNCHANGED <<vrfDict, tableVrfDict>>
    /\ UNCHANGED <<otherVars, seqVars, hostFiles, ctrVars>>

\* variant: storing the L3 VNI starts the VRF's VNI set afresh
AddL3VNIResetsL2(vni, vrf) ==
    /\ Idle
    /\ IF ~DictHas(vrfVniDict, vrf)
       THEN /\ raised' = "KeyError"
            /\ UNCHANGED <<vrfVniDict, l3Replaced>>
       ELSE /\ vrfVniDict' = DictSet(vrfVniDict, vrf, <<vni, <<>>>>)
            /\ l3Replaced' = (l3Replaced \/ DictGet(vrfVniDict, vrf)[1]
                                               \notin {NoneVal, vni})
            /\ raised' = "none"
    /\ UNCHANGED <<regVars, vrfDict, tableVrfDict, bdIntfDict, cfg, objLimit,
                   subnetLimit,
                   generalConfig, daemonConfigs, shellVars, agentReady,
                   adminVars, confFiles, aclConfig, seqVars, hostFiles,
                   ctrVars>>

\* DockerRouter.addL3VNI
AddL3VNI(vni, vrf) ==
    /\ Idle
    /\ IF ~DictHas(vrfVniDict, vrf)
       THEN /\ raised' = "KeyError"
            /\ UNCHANGED <<vrfVniDict, l3Replaced>>
       ELSE /\ vrfVniDict' = DictSet(vrfVniDict, vrf,
                                     <<vni, DictGet(vrfVniDict, vrf)[2]>>)
            /\ l3Replaced' = (l3Replaced \/ DictGet(vrfVniDict, vrf)[1]
                                               \notin {NoneVal, vni})
            /\ raised' = "none"
    /\ UNCHANGED <<regVars, vrfDict, tableVrfDict, bdIntfDict, cfg, objLimit,
                   subnetLimit,
                   generalConfig, daemonConfigs, shellVars, agentReady,
                   adminVars, confFiles, aclConfig, seqVars,
                   hostFiles, ctrVars>>

\* variant: attaching sets the interface's BDI and leaves its VRF
AttachKeepsVRF(intfName, vni) ==
    /\ Idle
    /\ IF intfName \notin DOMAIN nameToIntf
          \/ BrName(vni) \notin DOMAIN nameToIntf
       THEN \* self.nameToIntf[...] raises KeyError
            /\ raised' = "KeyError"
            /\ UNCHANGED <<regVars, vrfVars>>
       ELSE LET o == nameToIntf[intfName]
                br == nameToIntf[BrName(vni)]
                bdi == objs[br].bdi
            IN  /\ objs' = [objs EXCEPT ![o].bdi = bdi]
                /\ IF ~DictHas(bdIntfDict, bdi)
                   THEN /\ raised' = "KeyError"
                        /\ UNCHANGED bdIntfDict
                   ELSE /\ Len(DictGet(bdIntfDict, bdi)) < MaxMembers
                        /\ bdIntfDict' = DictSet(bdIntfDict, bdi,
                               Append(DictGet(bdIntfDict, bdi), o))
                        /\ raised' = "none"
                /\ UNCHANGED <<intfs, ports, nameToIntf, effIntfs, autoPorts,
                               autoEmpty, assigned, vrfDict, tableVrfDict,
                               vrfVniDict>>
    /\ UNCHANGED <<otherVars, seqVars, hostFiles, ctrVars>>

\* DockerP4Router.attachIntfToL2VNI
AttachIntfToL2VNI(intfName, vni) ==
    /\ Idle
    /\ IF intfName \notin DOMAIN nameToIntf
          \/ BrName(vni) \notin DOMAIN nameToIntf
       THEN \* self.nameToIntf[...] raises KeyError
            /\ raised' = "KeyError"
            /\ UNCHANGED <<regVars, vrfVars>>
       ELSE LET o == nameToIntf[intfName]
                br == nameToIntf[BrName(vni)]
                bdi == objs[br].bdi
            IN  /\ objs' = [objs EXCEPT ![o].vrf = objs[br].vrf,
                                        ![o].bdi = bdi]
                /\ IF ~DictHas(bdIntfDict, bdi)
                   THEN /\ raised' = "KeyError"
                        /\ UNCHANGED bdIntfDict
                   ELSE /\ Len(DictGet(bdIntfDict, bdi)) < MaxMembers
                        /\ bdIntfDict' = DictSet(bdIntfDict, bdi,
                               Append(DictGet(bdIntfDict, bdi), o))
                        /\ raised' = "none"
                /\ UNCHANGED <<intfs, ports, nameToIntf, effIntfs, autoPorts,
                               autoEmpty, assigned, vrfDict, tableVrfDict,
                               vrfVniDict>>
    /\ UNCHANGED <<otherVars, seqVars, hostFiles, ctrVars>>

\* ------------------------------------------------- table materialization
RECURSIVE Flatten(_)
Flatten(ss) == IF ss = <<>> THEN <<>> ELSE Head(ss) \o Flatten(Tail(ss))

\* the lines written before the first statement that raised
RECURSIVE Written(_)
Written(ls) ==
    IF ls = <<>> THEN <<>>
    ELSE IF Head(ls).t = "KeyError" THEN <<>>
    ELSE <<Head(ls)>> \o Written(Tail(ls))

Raises(ls) == \E i \in 1..Len(ls) : ls[i].t = "KeyError"
KeyErrorLine == Line("KeyError", 0, 0, <<>>)
MacOf(o) == 100 + o

\* the text DockerP4Router.setupStartupTables writes, one record per line;
\* a failing dictionary lookup shows as KeyErrorLine at the line it stops
StartupLines ==
    LET eff(i) == effIntfs[i]
        perIntf(f(_, _)) ==
            [i \in 1..Len(effIntfs) |->
                IF eff(i)[2] \in DOMAIN intfs
                THEN f(eff(i)[2], intfs[eff(i)[2]])
                ELSE KeyErrorLine]
        smac(port, o) == Line("SrcMac_RW", port, MacOf(o), <<>>)
        svrf(port, o) ==
            IF objs[o].vrf \in DOMAIN vrfDict
            THEN Line("SetVrf_Virtual", port, vrfDict[objs[o].vrf], <<>>)
            ELSE KeyErrorLine
        sbd(port, o) == Line("SetBD_Virtual", port, objs[o].bdi, <<>>)
        decap(i) ==
            LET vec == vrfVniDict[i][2]
            IN  <<Line("l3vxlan_decap", vec[1], vec[1], <<>>)>> \o
                [j \in 1..Len(vec[2]) |->
                    Line("l2vxlan_decap", vec[2][j], vec[2][j], <<>>)]
        mcast(i) ==
            LET bdi == bdIntfDict[i][1]
                members == bdIntfDict[i][2]
            IN  <<Line("EthernetMcast_FIB", bdi, bdi, <<>>),
                  IF \A j \in 1..Len(members) : members[j] \in DOMAIN ports
                  THEN Line("mc_mgrp_add", bdi, 0,
                            [j \in 1..Len(members) |-> ports[members[j]]])
                  ELSE KeyErrorLine>>
    IN  <<Line("SrcMac_RW", cpu_input_port, 1, <<>>)>>
        \o perIntf(smac)
        \o <<Line("DstMac_FIB", 0, 2, <<>>),
             Line("mirroring_add", 819, 80, <<>>),
             Line("mirroring_add", 114, 80, <<>>)>>
        \o Flatten([i \in 1..Len(vrfVniDict) |-> decap(i)])
        \o perIntf(svrf)
        \o <<Line("SetVrf_Virtual", cpu_output_port, 0, <<>>)>>
        \o perIntf(sbd)
        \o Flatten([i \in 1..Len(bdIntfDict) |-> mcast(i)])

\* DockerP4Router.setupVrfTable
VrfTableLines ==
    [i \in 1..Len(tableVrfDict) |->
        Line("TableVrfDict", tableVrfDict[i][1], tableVrfDict[i][2], <<>>)]

\* DockerP4Router.setupIntfTable
IntfTableLines ==
    [i \in 1..Len(effIntfs) |-> Line(effIntfs[i][1], effIntfs[i][2], 0, <<>>)]

\* DockerP4Router.setupACL
ACLLines ==
    [i \in 1..Len(aclConfig) |-> Line("Filter_ACL", i, 1, aclConfig[i])]

\* the four setup calls of start(), in order; a call that raises leaves the
\* lines it had written and the later files untouched
Materialize(h) ==
    IF Raises(StartupLines)
    THEN [h EXCEPT !["Startup"] = File(Written(StartupLines))]
    ELSE [h EXCEPT !["Startup"] = File(StartupLines),
                   !["ACL"] = File(ACLLines),
                   !["TableVrfDict"] = File(VrfTableLines),
                   !["IntfPortDict"] = File(IntfTableLines)]

\* variant: the ACL file is opened for appending
SetupACLAppends ==
    /\ Idle
    /\ hostFiles' = [hostFiles EXCEPT !["ACL"] = File(@.lines \o ACLLines)]
    /\ UNCHANGED <<topoVars, otherVars, seqVars, ctrVars>>

\* DockerP4Router.setupACL, called on its own
SetupACL ==
    /\ Idle
    /\ hostFiles' = [hostFiles EXCEPT !["ACL"] = File(ACLLines)]
    /\ UNCHANGED <<topoVars, otherVars, seqVars, ctrVars>>

\* DockerP4Router.setupStartupTables, called on its own
SetupStartupTables ==
    /\ Idle
    /\ hostFiles' = [hostFiles EXCEPT
                       !["Startup"] = File(Written(StartupLines))]
    /\ raised' = IF Raises(StartupLines) THEN "KeyError" ELSE "none"
    /\ UNCHANGED <<regVars, vrfVars, otherVars, seqVars, ctrVars>>

\* DockerP4Router.setupVrfTable, called on its own
SetupVrfTable ==
    /\ Idle
    /\ hostFiles' = [hostFiles EXCEPT !["TableVrfDict"] = File(VrfTableLines)]
    /\ UNCHANGED <<topoVars, otherVars, seqVars, ctrVars>>

\* DockerP4Router.setupIntfTable, called on its own
SetupIntfTable ==
    /\ Idle
    /\ hostFiles' = [hostFiles EXCEPT !["IntfPortDict"] = File(IntfTableLines)]
    /\ UNCHANGED <<topoVars, otherVars, seqVars, ctrVars>>

\* variant: the separator between the two fields is missing
IntfLineTextNoSpace(l) == l.t \o ToString(l.k)

\* "{} {}\n".format(intfName, port): the text of a line of IntfPortDict
IntfLineText(l) == l.t \o " " \o ToString(l.k)
\* "{} {}\n".format(tableId, vrfId): the text of a line of TableVrfDict
VrfLineText(l) == ToString(l.k) \o " " \o ToString(l.v)

IntfTableText(f) == [i \in 1..Len(f.lines) |-> IntfLineText(f.lines[i])]
VrfTableText(f) == [i \in 1..Len(f.lines) |-> VrfLineText(f.lines[i])]

\* the reader of the lookup files: a line is split at its first space, the
\* numbers are read as decimal integers, a later line replaces an earlier
\* one with the same key
BadInt == -1
SpaceAt(s) ==
    LET at == {i \in 1..Len(s) : SubSeq(s, i, i) = " "}
    IN  IF at = {} THEN 0 ELSE CHOOSE i \in at : \A j \in at : i <= j
SplitLine(s) ==
    IF SpaceAt(s) = 0 THEN <<s, "">>
    ELSE <<SubSeq(s, 1, SpaceAt(s) - 1), SubSeq(s, SpaceAt(s) + 1, Len(s))>>
Digit(c) ==
    IF \E d \in 0..9 : ToString(d) = c
    THEN CHOOSE d \in 0..9 : ToString(d) = c
    ELSE BadInt
RECURSIVE ParseInt(_)
ParseInt(s) ==
    IF s = "" THEN BadInt
    ELSE LET last == Digit(SubSeq(s, Len(s), Len(s)))
             rest == SubSeq(s, 1, Len(s) - 1)
         IN  IF last = BadInt THEN BadInt
             ELSE IF rest = "" THEN last
             ELSE IF ParseInt(rest) = BadInt THEN BadInt
             ELSE 10 * ParseInt(rest) + last
RECURSIVE ParseTable(_, _)
ParseTable(text, intKey) ==
    IF text = <<>> THEN <<>>
    ELSE LET kv == SplitLine(text[Len(text)])
         IN  DictSet(ParseTable(SubSeq(text, 1, Len(text) - 1), intKey),
                     IF intKey THEN ParseInt(kv[1]) ELSE kv[1],
                     ParseInt(kv[2]))

\* DockerP4Router.installTables: docker cp of each file that exists, then
\* os.remove
installTables(h, c) ==
    [host |-> [k \in DOMAIN h |-> NoFile],
     ctr |-> [k \in DOMAIN c |-> IF h[k].exists THEN h[k] ELSE c[k]]]

\* DockerP4Router.setupSubnetTable(macTable, subnet): append mode
MacTables == {<<Line("DstMac_FIB", 10, 20, <<>>)>>}

\* the macTable arguments of a script that calls setupSubnetTable for
\* two subnets
SubnetTables ==
    {<<Line("DstMac_FIB", 10, 20, <<>>)>>, <<Line("DstMac_FIB", 11, 21, <<>>)>>}

\* variant: the file is opened with mode "w"
SetupSubnetTableOverwrites(macTable) ==
    /\ Idle
    /\ starts = 0
    /\ Len(hostFiles["Subnet"].lines) + Len(macTable) <= subnetLimit
    /\ hostFiles' = [hostFiles EXCEPT !["Subnet"] = File(macTable)]
    /\ UNCHANGED <<topoVars, otherVars, seqVars, ctrVars>>

\* called while the topology is built, before the node is started
\* (Subnet.installSubnetTable in the demo scripts)
SetupSubnetTable(macTable) ==
    /\ Idle
    /\ starts = 0
    /\ Len(hostFiles["Subnet"].lines) + Len(macTable) <= subnetLimit
    /\ hostFiles' = [hostFiles EXCEPT
                       !["Subnet"] = File(@.lines \o macTable)]
    /\ UNCHANGED <<topoVars, otherVars, seqVars, ctrVars>>

\* ------------------------------------------------- Docker shell, cmd()
\* a shell process: whether it runs, and the commands written to its pty
NewShell == [alive |-> TRUE, stdin |-> <<>>]
NoShell == 0            \* self.shell = None
InitCmd == 0            \* 'unset HISTFILE; stty -echo; set +m'
\* what the last cmd() returned: its call number, the command whose output
\* it returned, the shell that ran it, the shell that was dead when it
\* was called, whether the container was running, and the exception it raised
NoResult ==
    [n |-> 0, out |-> -1, shell |-> NoShell, dead |-> NoShell, up |-> TRUE,
     err |-> "none"]
\* the last terminate(): how the removal ended, whether cleanup ran to its
\* end, and the exception that reached the caller
NoTerminate == [outcome |-> "none", cleaned |-> FALSE, raised |-> "none"]

\* what the shell steps leave alone
nonShellVars ==
    <<topoVars, adminVars, cfg, objLimit, subnetLimit,
      l3Replaced, generalConfig,
      daemonConfigs,
      agentReady, confFiles, aclConfig, seqVars, hostFiles, ctrVars>>

Top == pending[Len(pending)]
Running(k) == k # NoShell /\ shells[k].alive

\* Docker.cmd is entered: sendCmd, then waitOutput
CmdCall ==
    /\ dpc = "idle"
    /\ result.n < MaxCmds
    /\ pending' = <<[n |-> result.n + 1,
                     dead |-> IF shell # NoShell /\ ~shells[shell].alive
                              THEN shell ELSE NoShell]>>
    /\ dpc' = "check"
    /\ UNCHANGED <<container, shell, shells, waiting, result, term>>
    /\ UNCHANGED nonShellVars

\* variant: a shell that has exited is kept
CheckShellNoRestart ==
    /\ dpc = "check"
    /\ IF container
       THEN IF shell # NoShell
            THEN /\ dpc' = "send"
                 /\ UNCHANGED <<shell, shells, pending>>
            ELSE /\ Len(shells) < MaxShells
                 /\ shells' = Append(shells, NewShell)
                 /\ shell' = Len(shells) + 1
                 /\ dpc' = "prompt"
                 /\ UNCHANGED pending
       ELSE /\ shell' = NoShell
            /\ dpc' = "send"
            /\ UNCHANGED <<shells, pending>>
    /\ UNCHANGED <<container, waiting, result, term>>
    /\ UNCHANGED nonShellVars

\* Docker._check_shell, and startShell up to the spawn of the new shell
CheckShell ==
    /\ dpc = "check"
    /\ IF container
       THEN IF Running(shell)
            THEN /\ dpc' = "send"
                 /\ UNCHANGED <<shell, shells, pending>>
            ELSE /\ Len(shells) < MaxShells
                 /\ shells' = Append(shells, NewShell)
                 /\ shell' = Len(shells) + 1
                 /\ dpc' = "prompt"
                 /\ UNCHANGED pending
       ELSE /\ shell' = NoShell
            /\ dpc' = "send"
            /\ UNCHANGED <<shells, pending>>
    /\ UNCHANGED <<container, waiting, result, term>>
    /\ UNCHANGED nonShellVars

\* startShell: the prompt of the new shell is read, then
\* self.cmd('unset HISTFILE; stty -echo; set +m') is entered
Prompt ==
    /\ dpc = "prompt"
    /\ Running(shell)
    /\ waiting' = FALSE
    /\ pending' = Append(pending, [n |-> InitCmd, dead |-> NoShell])
    /\ dpc' = "check"
    /\ UNCHANGED <<container, shell, shells, result, term>>
    /\ UNCHANGED nonShellVars

\* the command on top returns: the start-up command returns into
\* startShell, _check_shell and the sendCmd of the command below it; the
\* caller's command returns to the caller
Return(out, err) ==
    IF Len(pending) > 1 /\ err = "none"
    THEN /\ pending' = SubSeq(pending, 1, Len(pending) - 1)
         /\ dpc' = "send"
         /\ UNCHANGED result
    ELSE /\ pending' = <<>>
         /\ dpc' = "idle"
         /\ result' = [n |-> pending[1].n, out |-> out, shell |-> shell,
                       dead |-> pending[1].dead, up |-> container,
                       err |-> err]

\* variant: sendCmd writes the command and leaves self.waiting as it is
SendCmdWithoutFlag ==
    /\ dpc = "send"
    /\ IF shell = NoShell
       THEN /\ Return(-1, "none")
            /\ UNCHANGED <<shells, waiting>>
       ELSE IF waiting
       THEN /\ Return(-1, "AssertionError")
            /\ UNCHANGED <<shells, waiting>>
       ELSE /\ shells' = [shells EXCEPT ![shell].stdin = Append(@, Top.n)]
            /\ dpc' = "wait"
            /\ UNCHANGED <<pending, result, waiting>>
    /\ UNCHANGED <<container, shell, term>>
    /\ UNCHANGED nonShellVars

\* Docker.sendCmd after _check_shell: without a shell it returns and
\* waitOutput returns '' at once; else Node.sendCmd asserts and writes
SendCmd ==
    /\ dpc = "send"
    /\ IF shell = NoShell
       THEN /\ Return(-1, "none")
            /\ UNCHANGED <<shells, waiting>>
       ELSE IF waiting
       THEN /\ Return(-1, "AssertionError")
            /\ UNCHANGED <<shells, waiting>>
       ELSE /\ shells' = [shells EXCEPT ![shell].stdin = Append(@, Top.n)]
            /\ waiting' = TRUE
            /\ dpc' = "wait"
            /\ UNCHANGED <<pending, result>>
    /\ UNCHANGED <<container, shell, term>>
    /\ UNCHANGED nonShellVars

\* Node.waitOutput: the shell has run the last command written to it and
\* printed the sentinel
WaitOutput ==
    /\ dpc = "wait"
    /\ Running(shell)
    /\ waiting' = FALSE
    /\ Return(shells[shell].stdin[Len(shells[shell].stdin)], "none")
    /\ UNCHANGED <<container, shell, shells, term>>
    /\ UNCHANGED nonShellVars

\* environment: a shell process exits
ShellDies(k) ==
    /\ k \in 1..Len(shells)
    /\ shells[k].alive
    /\ shells' = [shells EXCEPT ![k].alive = FALSE]
    /\ UNCHANGED <<container, shell, waiting, dpc, pending, result, term>>
    /\ UNCHANGED nonShellVars

\* environment: the container stops, and its processes with it
ContainerStops ==
    /\ container
    /\ container' = FALSE
    /\ shells' = [k \in 1..Len(shells) |-> [shells[k] EXCEPT !.alive = FALSE]]
    /\ UNCHANGED <<shell, waiting, dpc, pending, result, term>>
    /\ UNCHANGED nonShellVars

\* variant: the API error of the removal reaches the caller
TerminateRaises ==
    /\ dpc = "idle"
    /\ IF ~container
       THEN /\ term' = [NoTerminate EXCEPT !.outcome = "not_running"]
            /\ UNCHANGED <<container, shells, dpc>>
       ELSE \/ /\ container' = FALSE
               /\ shells' = [k \in 1..Len(shells) |->
                               [shells[k] EXCEPT !.alive = FALSE]]
               /\ term' = [NoTerminate EXCEPT !.outcome = "removed"]
               /\ dpc' = "cleanup"
            \/ /\ term' = [NoTerminate EXCEPT !.outcome = "api_error",
                                              !.raised = "APIError"]
               /\ UNCHANGED <<container, shells, dpc>>
    /\ UNCHANGED <<shell, waiting, pending, result>>
    /\ UNCHANGED nonShellVars

\* Docker.terminate up to the call of cleanup: nothing is done for a
\* container that is not running; the removal succeeds or raises
\* docker.errors.APIError, which is caught
Terminate ==
    /\ dpc = "idle"
    /\ IF ~container
       THEN /\ term' = [NoTerminate EXCEPT !.outcome = "not_running"]
            /\ UNCHANGED <<container, shells, dpc>>
       ELSE \/ /\ container' = FALSE
               /\ shells' = [k \in 1..Len(shells) |->
                               [shells[k] EXCEPT !.alive = FALSE]]
               /\ term' = [NoTerminate EXCEPT !.outcome = "removed"]
               /\ dpc' = "cleanup"
            \/ /\ term' = [NoTerminate EXCEPT !.outcome = "api_error"]
               /\ dpc' = "cleanup"
               /\ UNCHANGED <<container, shells>>
    /\ UNCHANGED <<shell, waiting, pending, result>>
    /\ UNCHANGED nonShellVars

\* Node.cleanup: with a shell, its pty is closed and shell.wait() returns
\* once the shell process has exited; then the shell is released
Cleanup ==
    /\ dpc = "cleanup"
    /\ ~Running(shell)
    /\ shell' = NoShell
    /\ term' = [term EXCEPT !.cleaned = TRUE]
    /\ dpc' = "idle"
    /\ UNCHANGED <<container, shells, waiting, pending, result>>
    /\ UNCHANGED nonShellVars

\* ------------------------------------------------------------ ACL list
\* value if isinstance(value, str) else "{}&&&<mask>".format(value)
Masked(x, mask) == IF x.t = "str" THEN x.s ELSE ToString(x.i) \o "&&&" \o mask
Wildcard == "0&&&0"

\* variant: UDP ports are written into the TCP fields
acl_entryUdpAsTcp(dstAddr, srcAddr, protocol, dstPort, srcPort) ==
    LET port(x) == IF x = None THEN Wildcard ELSE Masked(x, "0xffff")
        l4 == protocol \in {IntArg(6), IntArg(17)}
    IN  << IF dstAddr = None THEN Wildcard ELSE dstAddr.s,
           IF srcAddr = None THEN Wildcard ELSE srcAddr.s,
           IF protocol = None THEN Wildcard ELSE Masked(protocol, "0xff"),
           IF l4 THEN port(dstPort) ELSE Wildcard,
           IF l4 THEN port(srcPort) ELSE Wildcard,
           Wildcard,
           Wildcard >>

\* the entry DockerP4Router.addACLConfig builds
acl_entry(dstAddr, srcAddr, protocol, dstPort, srcPort) ==
    LET port(x) == IF x = None THEN Wildcard ELSE Masked(x, "0xffff")
        tcp == protocol = IntArg(6)
        udp == protocol = IntArg(17)
    IN  << IF dstAddr = None THEN Wildcard ELSE dstAddr.s,
           IF srcAddr = None THEN Wildcard ELSE srcAddr.s,
           IF protocol = None THEN Wildcard ELSE Masked(protocol, "0xff"),
           IF tcp THEN port(dstPort) ELSE Wildcard,
           IF tcp THEN port(srcPort) ELSE Wildcard,
           IF udp THEN port(dstPort) ELSE Wildcard,
           IF udp THEN port(srcPort) ELSE Wildcard >>

\* DockerP4Router.addACLConfig
AddACLConfig(dstAddr, srcAddr, protocol, dstPort, srcPort) ==
    /\ Idle
    /\ Len(aclConfig) < MaxAcl
    /\ aclConfig' = Append(aclConfig,
                      acl_entry(dstAddr, srcAddr, protocol, dstPort, srcPort))
    /\ raised' = "none"
    /\ UNCHANGED <<regVars, vrfVars, restVars, confFiles, seqVars, hostFiles,
                   ctrVars>>

\* ------------------------------------------------ routing configuration
\* DockerRouter.daemonsOptions with no keyword overrides
daemonsOptions == [p \in Protocols |-> IF p = "zebra" THEN "yes" ELSE "no"]

RECURSIVE SumLen(_, _)
SumLen(d, S) ==
    IF S = {} THEN 0
    ELSE LET x == CHOOSE y \in S : TRUE
         IN  Len(d[x]) + SumLen(d, S \ {x})

\* addRoutingConfig calls so far; an accumulated line is kept with the
\* number of the call that supplied it
RoutingCalls == Len(generalConfig) + SumLen(daemonConfigs, Protocols)

\* variant: a new line goes to the front of its list
AddRoutingConfigPrepends(protocol, configStr) ==
    /\ Idle
    /\ RoutingCalls < MaxConfigLines
    /\ LET e == [n |-> RoutingCalls + 1, s |-> configStr]
       IN  IF protocol # NoProtocol /\ configStr # ""
           THEN /\ daemonConfigs' =
                       [daemonConfigs EXCEPT ![protocol] = <<e>> \o @]
                /\ UNCHANGED generalConfig
           ELSE /\ generalConfig' = <<e>> \o generalConfig
                /\ UNCHANGED daemonConfigs
    /\ raised' = "none"
    /\ UNCHANGED <<regVars, vrfVars, adminVars, cfg, objLimit, subnetLimit,
                   l3Replaced,
                   shellVars,
                   agentReady, confFiles, aclConfig, seqVars, hostFiles,
                   ctrVars>>

\* DockerRouter.addRoutingConfig(protocol, configStr)
AddRoutingConfig(protocol, configStr) ==
    /\ Idle
    /\ RoutingCalls < MaxConfigLines
    /\ LET e == [n |-> RoutingCalls + 1, s |-> configStr]
       IN  IF protocol # NoProtocol /\ configStr # ""
           THEN /\ daemonConfigs' =
                       [daemonConfigs EXCEPT ![protocol] = Append(@, e)]
                /\ UNCHANGED generalConfig
           ELSE /\ generalConfig' = Append(generalConfig, e)
                /\ UNCHANGED daemonConfigs
    /\ raised' = "none"
    /\ UNCHANGED <<regVars, vrfVars, adminVars, cfg, objLimit, subnetLimit,
                   l3Replaced,
                   shellVars,
                   agentReady, confFiles, aclConfig, seqVars, hostFiles,
                   ctrVars>>

\* the text `echo -e` writes, line by line: every element of the list
\* followed by a newline
TextOf(acc) == [i \in 1..Len(acc) |-> acc[i].s]
GeneralHeader == <<"hostname r1", "password zebra", "">>
GeneralText == GeneralHeader \o TextOf(generalConfig)
ProtocolText(protocol) == TextOf(daemonConfigs[protocol])

\* DockerRouter.setupGeneralConfig
SetupGeneralConfig ==
    /\ Idle
    /\ confFiles' = [confFiles EXCEPT ![GeneralFile] = File(GeneralText)]
    /\ UNCHANGED <<topoVars, restVars, aclConfig, seqVars, hostFiles, ctrVars>>

\* DockerRouter.setupRoutingConfigByProtocol(protocol)
SetupRoutingConfigByProtocol(protocol) ==
    /\ Idle
    /\ confFiles' = [confFiles EXCEPT
                       ![protocol] = File(ProtocolText(protocol))]
    /\ UNCHANGED <<topoVars, restVars, aclConfig, seqVars, hostFiles, ctrVars>>

\* DockerRouter.start: the general file, then one file per enabled daemon
RoutingFiles(c) ==
    [f \in DOMAIN c |->
        IF f = GeneralFile THEN File(GeneralText)
        ELSE IF daemonsOptions[f] = "yes" THEN File(ProtocolText(f))
        ELSE c[f]]

\* ------------------------------------------------------ start() sequence
Log(e) == inv' = Append(inv, e)

\* lines 1651-1686: the two control-plane veth pairs and the isolation rules
WireInterfaces ==
    /\ Idle
    /\ starts < MaxStarts
    /\ starts' = starts + 1
    /\ pc' = "bind"
    /\ inv' = <<"veth">>
    /\ kernel' = [kernel EXCEPT !.veth = @ + 1, !.ipForward = FALSE,
                                !.policyRule = TRUE]
    /\ UNCHANGED <<topoVars, otherVars, args, cp, hostFiles, ctrFiles,
                   procs, engine, marker>>

\* the '-i port@name' arguments merged at lines 1688-1703
MergeArgs ==
    [i \in 1..Len(effIntfs) |-> <<effIntfs[i][2], effIntfs[i][1]>>]
    \o << <<cpu_input_port, "dp-egress">>, <<cpu_output_port, "dp-ingress">> >>

\* variant: the packet injector is not copied
ImportedWithoutInjector ==
    {"running.json"} \cup {a \in Agents \ {"packet_injector"} : cfg[a]}

\* the docker cp calls at lines 1717-1740; only paths that are set are copied
Imported == {"running.json"} \cup {a \in Agents : cfg[a]}

\* variant: the tables are installed before the engine is launched
BindPortsSkipLaunch ==
    /\ pc = "bind"
    /\ pc' = "materialize"
    /\ args' = MergeArgs
    /\ kernel' = [kernel EXCEPT !.rules = @ \cup DictKeys(effIntfs)]
    /\ ctrFiles' = [ctrFiles EXCEPT !.bins = @ \cup Imported]
    /\ Log("bind")
    /\ UNCHANGED <<topoVars, otherVars, starts, cp, hostFiles, procs,
                   engine, marker>>

\* lines 1688-1740: port arguments, packet-filter rules, imported files
BindPorts ==
    /\ pc = "bind"
    /\ pc' = "launch"
    /\ args' = MergeArgs
    /\ kernel' = [kernel EXCEPT !.rules = @ \cup DictKeys(effIntfs)]
    /\ ctrFiles' = [ctrFiles EXCEPT !.bins = @ \cup Imported]
    /\ Log("bind")
    /\ UNCHANGED <<topoVars, otherVars, starts, cp, hostFiles, procs,
                   engine, marker>>

\* lines 1742-1743: the forwarding engine as a background process
LaunchEngine ==
    /\ pc = "launch"
    /\ pc' = "materialize"
    /\ procs' = [procs EXCEPT !["bmv2"] = @ + 1]
    /\ engine' = [engine EXCEPT !.bindings = args]
    /\ Log("launch_engine")
    /\ UNCHANGED <<topoVars, otherVars, starts, args, cp, hostFiles,
                   ctrFiles, kernel, marker>>

\* lines 1746-1754: the four setup calls, installTables, the check points
MaterializeTables ==
    /\ pc = "materialize"
    /\ IF Raises(StartupLines)
       THEN \* setupStartupTables raised: start() is left by the exception
            /\ hostFiles' = Materialize(hostFiles)
            /\ pc' = "idle"
            /\ raised' = "KeyError"
            /\ Log("raise")
            /\ UNCHANGED <<ctrFiles, cp>>
       ELSE LET res == installTables(Materialize(hostFiles), ctrFiles.cmds)
            IN  /\ hostFiles' = res.host
                /\ ctrFiles' = [ctrFiles EXCEPT !.cmds = res.ctr]
                /\ pc' = "loop"
                /\ cp' = [t \in Tables |-> "init"]
                /\ Log("install_files")
                /\ UNCHANGED raised
    /\ UNCHANGED <<regVars, vrfVars, otherVars, starts, args, kernel,
                   procs, engine, marker>>

\* variant: any output of the tool ends the wait
HasAckAnyOutput(output) == output # "init"

\* "RuntimeCmd" in output
HasAck(output) == output \in {"RuntimeCmd: "}

\* line 1755: the loop condition
LoopCond == \E t \in Tables : ~HasAck(cp[t])

Attempts == Cardinality({i \in 1..Len(inv) : inv[i] = "runtime_API:Startup"})

LoopTest ==
    /\ pc = "loop"
    /\ IF LoopCond
       THEN /\ Attempts < MaxAttempts
            /\ pc' = "Startup"
            /\ UNCHANGED inv
       ELSE /\ pc' = "mediator"
            /\ Log("loop_exit")
    /\ UNCHANGED <<topoVars, otherVars, starts, args, cp, hostFiles,
                   ctrVars>>

\* what `python3 /tmp/runtime_API.py < /tmp/<t>_cmds` prints
RuntimeOutput(t) ==
    IF ~ctrFiles.cmds[t].exists THEN "bash: No such file or directory"
    ELSE IF "runtime_api" \notin ctrFiles.bins THEN "python3: can't open file"
    ELSE IF ~engine.ready THEN "Could not connect to thrift server"
    ELSE "RuntimeCmd: "

NextTable(t) ==
    IF t = "Startup" THEN "Subnet" ELSE IF t = "Subnet" THEN "ACL" ELSE "loop"

\* lines 1756-1758: one invocation of the administration tool
RuntimeAPI(t) ==
    /\ pc = t
    /\ pc' = NextTable(t)
    /\ cp' = [cp EXCEPT ![t] = RuntimeOutput(t)]
    /\ engine' = IF HasAck(RuntimeOutput(t))
                 THEN [engine EXCEPT !.accepted[t] = @ + 1,
                                     !.entries[t] = ctrFiles.cmds[t].lines]
                 ELSE engine
    /\ Log(IF t = "Startup" THEN "runtime_API:Startup"
           ELSE IF t = "Subnet" THEN "runtime_API:Subnet"
           ELSE "runtime_API:ACL")
    /\ UNCHANGED <<topoVars, otherVars, starts, args, hostFiles,
                   ctrFiles, kernel, procs, marker>>

\* DockerP4Router.setAdminConfig
SetAdminConfig(adminIP, faultReportCollectionPort) ==
    /\ Idle
    /\ admin' = [ip |-> adminIP, port |-> faultReportCollectionPort]
    /\ UNCHANGED <<topoVars, cfg, objLimit, subnetLimit,
                   l3Replaced, generalConfig,
                   daemonConfigs, shellVars, agentReady, debug, mediatorCmd,
                   confFiles, aclConfig, seqVars, hostFiles, ctrVars>>

\* "{}".format(value)
Format(x) ==
    IF x = None THEN "None" ELSE IF x.t = "str" THEN x.s ELSE ToString(x.i)

NoCmd == [strace |-> FALSE, opts |-> <<>>]

\* lines 1762-1766: the command line of the route mediator
MediatorCommand ==
    IF debug
    THEN [strace |-> TRUE,
          opts |-> << <<"--log-file", "/tmp/rt_mediator.log">> >>]
    ELSE [strace |-> FALSE,
          opts |-> << <<"--log-file", "/tmp/rt_mediator.log">>,
                      <<"--report-server-ip", Format(admin.ip)>>,
                      <<"--report-server-port", Format(admin.port)>>,
                      <<"--table-vrf-file", "/tmp/TableVrfDict">>,
                      <<"--intf-port-file", "/tmp/IntfPortDict">> >>]

\* lines 1760-1766
StartMediator ==
    /\ pc = "mediator"
    /\ IF cfg["rt_mediator"]
       THEN /\ procs' = [procs EXCEPT !["rt_mediator"] = @ + 1]
            /\ mediatorCmd' = MediatorCommand
            /\ pc' = "wait"
            /\ Log("start_mediator")
       ELSE /\ pc' = "agent"
            /\ UNCHANGED <<procs, inv, mediatorCmd>>
    /\ UNCHANGED <<topoVars, cfg, objLimit, subnetLimit,
                   l3Replaced, generalConfig,
                   daemonConfigs, shellVars, agentReady, admin, debug,
                   confFiles, aclConfig, starts, args, cp, hostFiles,
                   ctrFiles, kernel, engine, marker>>

\* what `cat /rt_mediator_init_succ` prints
CatMarker ==
    IF marker = "absent" THEN "cat: /rt_mediator_init_succ: No such file"
    ELSE marker

\* variant: any output of cat counts as success
MarkerOKAnyOutput(output) == output # ""

MarkerOK(output) == output = "1"

\* lines 1768-1769: one poll of the marker file; a failed poll sleeps
WaitMediator ==
    /\ pc = "wait"
    /\ IF MarkerOK(CatMarker)
       THEN /\ pc' = "agent"
            /\ Log("marker_ok")
       ELSE UNCHANGED <<pc, inv>>
    /\ UNCHANGED <<topoVars, otherVars, starts, args, cp, hostFiles,
                   ctrVars>>

\* lines 1771-1777
StartAgent ==
    /\ pc = "agent"
    /\ pc' = "router"
    /\ IF cfg["switch_agent"]
       THEN /\ procs' = [procs EXCEPT !["switch_agent"] = @ + 1]
            /\ Log("start_agent")
       ELSE UNCHANGED <<procs, inv>>
    /\ UNCHANGED <<topoVars, otherVars, starts, args, cp, hostFiles,
                   ctrFiles, kernel, engine, marker>>

\* variant: the routing daemons wait for the switch agent to be ready
RouterStartAfterAgent ==
    /\ pc = "router"
    /\ cfg["switch_agent"] => agentReady
    /\ pc' = "idle"
    /\ procs' = [procs EXCEPT !["daemons"] = @ + 1]
    /\ confFiles' = RoutingFiles(confFiles)
    /\ Log("router_start")
    /\ UNCHANGED <<topoVars, restVars, aclConfig, starts, args, cp, hostFiles,
                   ctrFiles, kernel, engine, marker>>

\* line 1779: DockerRouter.start, the routing daemons
RouterStart ==
    /\ pc = "router"
    /\ pc' = "idle"
    /\ procs' = [procs EXCEPT !["daemons"] = @ + 1]
    /\ confFiles' = RoutingFiles(confFiles)
    /\ Log("router_start")
    /\ UNCHANGED <<topoVars, restVars, aclConfig, starts, args, cp, hostFiles,
                   ctrFiles, kernel, engine, marker>>

\* DockerP4Router.installTables called by the topology script
InstallTables ==
    /\ Idle
    /\ \E k \in DOMAIN hostFiles : hostFiles[k].exists
    /\ LET res == installTables(hostFiles, ctrFiles.cmds)
       IN  /\ hostFiles' = res.host
           /\ ctrFiles' = [ctrFiles EXCEPT !.cmds = res.ctr]
    /\ UNCHANGED <<topoVars, otherVars, seqVars, kernel, procs, engine,
                   marker>>

\* ------------------------------------------------- external processes
\* the forwarding engine finishes initializing and opens its thrift port
EngineReady ==
    /\ procs["bmv2"] > 0
    /\ ~engine.ready
    /\ engine' = [engine EXCEPT !.ready = TRUE]
    /\ UNCHANGED <<topoVars, otherVars, seqVars, hostFiles, ctrFiles,
                   kernel, procs, marker>>

\* the route mediator finishes initializing and writes its marker file
MediatorInit ==
    /\ procs["rt_mediator"] > 0
    /\ marker = "absent"
    /\ marker' = "1"
    /\ UNCHANGED <<topoVars, otherVars, seqVars, hostFiles, ctrFiles,
                   kernel, procs, engine>>

\* the switch agent finishes initializing
AgentInit ==
    /\ procs["switch_agent"] > 0
    /\ ~agentReady
    /\ agentReady' = TRUE
    /\ UNCHANGED <<topoVars, adminVars, cfg, objLimit, subnetLimit, l3Replaced,
                   generalConfig,
                   daemonConfigs, shellVars, confFiles, aclConfig, seqVars,
                   hostFiles, ctrVars>>

\* ------------------------------------------------------- specification
Kinds == Tables \cup LookupFiles
ProcNames == {"bmv2", "rt_mediator", "switch_agent", "packet_injector",
              "daemons"}

InitState ==
    /\ objs = <<>>
    /\ intfs = <<>>
    /\ ports = <<>>
    /\ nameToIntf = [n \in {} |-> 0]
    /\ effIntfs = <<>>
    /\ vrfDict = [n \in {"default"} |-> DefaultTable]
    /\ tableVrfDict = << <<MainTable, 0>>, <<LocalTable, 0>> >>
    /\ vrfVniDict = << <<"default", <<NoneVal, <<>>>>>> >>
    /\ bdIntfDict = <<>>
    /\ raised = "none"
    /\ autoPorts = <<>>
    /\ autoEmpty = FALSE
    /\ assigned = <<>>
    /\ l3Replaced = FALSE
    /\ generalConfig = <<>>
    /\ daemonConfigs = [p \in Protocols |-> <<>>]
    /\ confFiles = [f \in Protocols \cup {GeneralFile} |-> NoFile]
    /\ container = TRUE
    /\ shell = 1
    /\ shells = <<NewShell>>
    /\ waiting = FALSE
    /\ dpc = "idle"
    /\ pending = <<>>
    /\ result = NoResult
    /\ term = NoTerminate
    /\ agentReady = FALSE
    /\ admin = [ip |-> None, port |-> None]
    /\ debug \in BOOLEAN
    /\ mediatorCmd = NoCmd
    /\ cfg \in CfgChoices
    /\ aclConfig = <<>>
    /\ pc = "idle"
    /\ starts = 0
    /\ args = <<>>
    /\ hostFiles = [k \in Kinds |-> NoFile]
    /\ ctrFiles = [cmds |-> [k \in Kinds |-> NoFile], bins |-> {}]
    /\ kernel = [veth |-> 0, ipForward |-> TRUE, policyRule |-> FALSE,
                 rules |-> {}]
    /\ procs = [p \in ProcNames |-> 0]
    /\ engine = [ready |-> FALSE, bindings |-> <<>>,
                 accepted |-> [t \in Tables |-> 0],
                 entries |-> [t \in Tables |-> <<>>]]
    /\ marker = "absent"
    /\ cp = [t \in Tables |-> "init"]
    /\ inv = <<>>

\* start() is called without arguments
Init ==
    InitState /\ objLimit = MaxObjs /\ subnetLimit = MaxSubnetLines /\ ~debug

\* the calls a topology script makes on a node it is going to start
Topology ==
    \/ \E n \in IntfNames : AddIntf(n, NonePort)
    \/ \E v \in Vnis : AddL2VNI(v, "default")
    \/ \E n \in IntfNames, v \in Vnis : AttachIntfToL2VNI(n, v)

Next ==
    \/ Topology
    \/ \E m \in MacTables : SetupSubnetTable(m)
    \/ InstallTables
    \/ WireInterfaces
    \/ BindPorts
    \/ LaunchEngine
    \/ MaterializeTables
    \/ LoopTest
    \/ \E t \in Tables : RuntimeAPI(t)
    \/ StartMediator
    \/ WaitMediator
    \/ StartAgent
    \/ RouterStart
    \/ EngineReady
    \/ MediatorInit

Spec == Init /\ [][Next]_vars

\* the registry with explicit ports and removal, on a node that is never
\* started
TopoInit == Init /\ \A a \in Agents : cfg[a]

TopoNext ==
    \/ \E n \in IntfNames, p \in {NonePort} \cup ExplicitPorts : AddIntf(n, p)
    \/ \E v \in Vnis, n \in VrfNames : AddL2VNI(v, n)
    \/ \E n \in IntfNames, v \in Vnis : AttachIntfToL2VNI(n, v)
    \/ \E o \in 1..MaxObjs : DelIntf(o)
    \/ \E n \in VrfNames, t \in TableIds : AddVRF(n, t)

TopoSpec == TopoInit /\ [][TopoNext]_vars

\* a node with two bridge domains: the VRF / bridge-domain model over two
\* VNIs, with interfaces on automatic ports and no removal
BdInit ==
    /\ InitState /\ objLimit = MaxBdObjs /\ subnetLimit = MaxSubnetLines
    /\ ~debug /\ \A a \in Agents : cfg[a]

BdNext ==
    \/ \E n \in IntfNames : AddIntf(n, NonePort)
    \/ \E v \in BdVnis, n \in VrfNames : AddL2VNI(v, n)
    \/ \E n \in IntfNames, v \in BdVnis : AttachIntfToL2VNI(n, v)
    \/ \E t \in TableIds : AddVRF("red", t)

BdSpec == BdInit /\ [][BdNext]_vars

\* the VRF model alone: VRFs and their L3 / L2 VNIs over two VNI values
VrfNext ==
    \/ \E n \in VrfNames, t \in TableIds : AddVRF(n, t)
    \/ \E v \in BdVnis, n \in VrfNames : AddL2VNI(v, n)
    \/ \E v \in BdVnis, n \in VrfNames : AddL3VNI(v, n)

VrfSpec == TopoInit /\ [][VrfNext]_vars

\* the routing configuration accumulator and the files written from it
RouteNext ==
    \/ \E p \in Protocols \cup {NoProtocol}, l \in ConfigLines :
           AddRoutingConfig(p, l)
    \/ SetupGeneralConfig
    \/ \E p \in Protocols : SetupRoutingConfigByProtocol(p)

RouteSpec == TopoInit /\ [][RouteNext]_vars

\* start() on a node without interfaces, with the three external
\* processes as the environment
StartStep ==
    \/ BindPorts
    \/ LaunchEngine
    \/ MaterializeTables
    \/ LoopTest
    \/ \E t \in Tables : RuntimeAPI(t)
    \/ StartMediator
    \/ WaitMediator
    \/ StartAgent
    \/ RouterStart

SeqNext ==
    \/ \E m \in MacTables : SetupSubnetTable(m)
    \/ WireInterfaces
    \/ StartStep
    \/ EngineReady
    \/ MediatorInit
    \/ AgentInit

SeqSpec == Init /\ [][SeqNext]_vars

\* start() runs on once it is entered, an engine that was launched gets
\* ready and a mediator that was started writes its marker
LiveSpec ==
    /\ Init
    /\ [][SeqNext]_vars
    /\ WF_vars(StartStep)
    /\ WF_vars(EngineReady)
    /\ WF_vars(MediatorInit)

\* start() with and without debug, after setAdminConfig calls
AdminInit ==
    InitState /\ objLimit = MaxObjs /\ subnetLimit = MaxSubnetLines

AdminNext ==
    \/ \E a \in AdminChoices : SetAdminConfig(a.ip, a.port)
    \/ \E m \in MacTables : SetupSubnetTable(m)
    \/ WireInterfaces
    \/ StartStep
    \/ EngineReady
    \/ MediatorInit

AdminSpec == AdminInit /\ [][AdminNext]_vars

\* the five set-up methods called again and again on a node that is not
\* started, between calls that change what they write
BatchInit ==
    /\ InitState /\ objLimit = MaxObjs /\ subnetLimit = MaxSubnetBatch
    /\ ~debug /\ \A a \in Agents : cfg[a]

BatchNext ==
    \/ \E m \in SubnetTables : SetupSubnetTable(m)
    \/ AddIntf("eth0", NonePort)
    \/ AddACLConfig(StrArg("10.0.0.1"), None, IntArg(6), IntArg(80), None)
    \/ SetupStartupTables
    \/ SetupACL
    \/ SetupVrfTable
    \/ SetupIntfTable

BatchSpec == BatchInit /\ [][BatchNext]_vars

\* addVRF with any table ID, and the lookup file written from the map
SeedNext ==
    \/ \E n \in VrfNames, t \in SeedTableIds : AddVRF(n, t)
    \/ \E v \in Vnis, n \in VrfNames : AddL3VNI(v, n)
    \/ \E n \in IntfNames : AddIntf(n, NonePort)
    \/ SetupVrfTable

SeedSpec == TopoInit /\ [][SeedNext]_vars

\* interfaces on automatic ports and on explicit ports next to the CPU
\* ports, and the startup table written from them
CpuPortNext ==
    \/ \E n \in IntfNames, p \in {NonePort} \cup CpuSidePorts : AddIntf(n, p)
    \/ \E o \in 1..MaxObjs : DelIntf(o)
    \/ SetupStartupTables

CpuPortSpec == TopoInit /\ [][CpuPortNext]_vars

\* the shell of a Docker node: cmd(), terminate() and the environment
ShellNext ==
    \/ CmdCall
    \/ CheckShell
    \/ Prompt
    \/ SendCmd
    \/ WaitOutput
    \/ \E k \in 1..MaxShells : ShellDies(k)
    \/ ContainerStops
    \/ Terminate
    \/ Cleanup

ShellSpec == TopoInit /\ [][ShellNext]_vars

\* the ACL list and its file
AclNext ==
    \/ \E d, a \in AclAddrs, pr \in AclProtocols, dp, sp \in AclPorts :
           AddACLConfig(d, a, pr, dp, sp)
    \/ SetupACL

AclSpec == TopoInit /\ [][AclNext]_vars

\* table provisioning called on a node that is not started: interfaces on
\* automatic ports, one bridge, one ACL rule and the four set-up methods
\* (no interface is removed, so setupStartupTables does not raise here)
ProvNext ==
    \/ \E n \in IntfNames : AddIntf(n, NonePort)
    \/ \E v \in Vnis : AddL2VNI(v, "default")
    \/ AddACLConfig(StrArg("10.0.0.1"), None, IntArg(6), IntArg(80), None)
    \/ SetupStartupTables
    \/ SetupACL
    \/ SetupVrfTable
    \/ SetupIntfTable

ProvSpec == TopoInit /\ [][ProvNext]_vars

\* the two lookup files written from the registry and the VRF tables
LookupNext ==
    \/ \E n \in IntfNames, p \in {NonePort} \cup ExplicitPorts : AddIntf(n, p)
    \/ \E o \in 1..MaxObjs : DelIntf(o)
    \/ \E n \in VrfNames, t \in TableIds : AddVRF(n, t)
    \/ SetupVrfTable
    \/ SetupIntfTable

LookupSpec == TopoInit /\ [][LookupNext]_vars

\* ================================================================ claims
Events == {inv[i] : i \in 1..Len(inv)}
Issued(e) == e \in Events
Before(e, i) == \E j \in 1..(i - 1) : inv[j] = e
RuntimeEvents == {"runtime_API:Startup", "runtime_API:Subnet",
                  "runtime_API:ACL"}
ControlPlaneEvents == {"start_mediator", "start_agent", "router_start"}
Completed == pc = "idle" /\ Issued("router_start")

\* C1: in every execution of start() the forwarding-engine launch is issued
\* before the first runtime_API invocation, no invocation follows the exit
\* of the installation loop, and the mediator, the switch agent and the
\* generic router start are issued only after that exit.
C1_StageOrder ==
    \A i \in 1..Len(inv) :
        /\ inv[i] \in RuntimeEvents =>
              Before("launch_engine", i) /\ ~Before("loop_exit", i)
        /\ inv[i] \in ControlPlaneEvents => Before("loop_exit", i)

C1_Witness ==
    /\ Completed
    /\ Issued("start_mediator")
    /\ Issued("start_agent")
    /\ Attempts = 2

\* C2: the installation loop is left only when the latest output of each of
\* the three invocations contains "RuntimeCmd".
C2_ExitOnlyOnAck ==
    Issued("loop_exit") => \A t \in Tables : cp[t] = "RuntimeCmd: "

C2_Witness ==
    /\ Issued("loop_exit")
    /\ Attempts = 2
    /\ pc = "mediator"

\* C3 (as claimed): when the loop of the first start() exits, each of the
\* three batches has been accepted by the engine exactly once.
C3_AcceptedOnce ==
    (starts = 1 /\ Issued("loop_exit")) =>
        \A t \in Tables : engine.accepted[t] = 1

\* C4 (as claimed): while the forwarding engine has not been launched,
\* no table file has been copied into the container.
C4_NoCopyBeforeLaunch ==
    procs["bmv2"] = 0 => \A k \in Kinds : ~ctrFiles.cmds[k].exists

\* C5: with a mediator configured, the switch agent and the generic router
\* start are issued only after a read of the marker file returned "1";
\* without one, start() never waits on the marker.
C5_MediatorGate ==
    /\ cfg["rt_mediator"] =>
          \A i \in 1..Len(inv) :
              inv[i] \in {"start_agent", "router_start"} =>
                  Before("marker_ok", i)
    /\ Issued("marker_ok") => marker = "1" /\ Issued("start_mediator")
    /\ ~cfg["rt_mediator"] => pc # "wait" /\ ~Issued("marker_ok")

C5_Witness ==
    /\ Completed
    /\ cfg["rt_mediator"]
    /\ Issued("start_agent")
    /\ Issued("marker_ok")

\* C6 (as claimed): over any sequence of operations the control-plane veth
\* pairs are created at most once and the engine is launched at most once.
C6_StartedOnce ==
    kernel.veth <= 1 /\ procs["bmv2"] <= 1

\* C7: once start() has installed the tables, a call that adds an interface
\* or attaches one to an L2 VNI leaves the files in the container, the
\* entries held by the engine and the engine's port bindings as they were.
RegistryView == <<objs, intfs, ports, nameToIntf, effIntfs, bdIntfDict>>

C7_NoRetroactiveUpdate ==
    [][(Issued("install_files") /\ Idle /\ RegistryView' # RegistryView)
          => UNCHANGED <<ctrFiles, engine, hostFiles>>]_vars

C7_Witness ==
    /\ Completed
    /\ Len(engine.bindings) = 2
    /\ Len(effIntfs) = 1
    /\ \E i \in 1..Len(bdIntfDict) : bdIntfDict[i][2] # <<>>
    /\ ctrFiles.cmds["Startup"].lines # StartupLines
    /\ engine.entries["Startup"] = ctrFiles.cmds["Startup"].lines

\* C8: the engine is launched with exactly one binding port@name for every
\* entry of the effective interface set, with the two CPU ports, and with
\* nothing else; a bridge created by addL2VNI is not bound.
Bound(b) == Cardinality({j \in 1..Len(engine.bindings) :
                            engine.bindings[j] = b})

C9_InjectorLaunched ==
    (cfg["packet_injector"] /\ Completed) => procs["packet_injector"] > 0

\* C9 (amended): start() copies the packet injector into the container
\* exactly when its path is configured, before the engine is launched, and
\* never launches it.
C9_InjectorImportedOnly ==
    /\ procs["packet_injector"] = 0
    /\ procs["bmv2"] > 0 =>
          (("packet_injector" \in ctrFiles.bins) <=> cfg["packet_injector"])

C9_Witness ==
    /\ cfg["packet_injector"]
    /\ Completed
    /\ "packet_injector" \in ctrFiles.bins

\* C10: the ports handed out by consecutive addIntf calls without an
\* explicit port, with no removal in between, are strictly increasing, and
\* the first one on an empty node is portBase.
C10_AutoPortsIncrease ==
    /\ \A i \in 1..Len(autoPorts), j \in 1..Len(autoPorts) :
          i < j => autoPorts[i] < autoPorts[j]
    /\ (autoPorts # <<>> /\ autoEmpty) => autoPorts[1] = portBase

C10_Witness ==
    /\ autoEmpty
    /\ autoPorts = <<portBase, portBase + 1>>

\* every interface so far got its port from newPort()
AllAuto == \A o \in DOMAIN assigned : assigned[o].auto

C12_RegistryInverse ==
    /\ \A o1, o2 \in DOMAIN ports : ports[o1] = ports[o2] => o1 = o2
    /\ \A o \in DOMAIN ports :
           ports[o] \in DOMAIN intfs /\ intfs[ports[o]] = o
    /\ \A p \in DOMAIN intfs :
           intfs[p] \in DOMAIN ports /\ ports[intfs[p]] = p


\* delIntf(o) left every entry of the three maps that is not o's as it was
OthersKept(o) ==
    /\ \A p \in DOMAIN intfs :
           intfs[p] # o => p \in DOMAIN intfs' /\ intfs'[p] = intfs[p]
    /\ \A q \in DOMAIN ports :
           q # o => q \in DOMAIN ports' /\ ports'[q] = ports[q]
    /\ \A n \in DOMAIN nameToIntf :
           nameToIntf[n] # o
               => n \in DOMAIN nameToIntf' /\ nameToIntf'[n] = nameToIntf[n]

\* delIntf(o) left no entry of o in the three maps
OwnRemoved(o) ==
    /\ \A p \in DOMAIN intfs' : intfs'[p] # o
    /\ o \notin DOMAIN ports'
    /\ \A n \in DOMAIN nameToIntf' : nameToIntf'[n] # o

\* C13 (as stated): delIntf on a registered interface removes exactly that
\* interface's entries from intfs, ports and nameToIntf and leaves every
\* other interface's entries intact; on an interface that is not registered
\* it changes nothing; in neither case does it raise
C13_DelIntfFrame ==
    [][\A o \in 1..Len(objs) :
          DelIntf(o) =>
              /\ raised' = "none"
              /\ IF o \in DOMAIN ports
                 THEN OthersKept(o) /\ OwnRemoved(o)
                 ELSE UNCHANGED <<intfs, ports, nameToIntf>>]_vars


\* C14 (as stated): after any sequence of addIntf and delIntf every entry of
\* effIntfs names a currently registered interface, and its port is the port
\* the registry holds for that interface
C14_EffIntfsRegistered ==
    \A i \in DOMAIN effIntfs :
        LET n == effIntfs[i][1]
        IN  /\ n \in DOMAIN nameToIntf
            /\ nameToIntf[n] \in DOMAIN ports
            /\ ports[nameToIntf[n]] = effIntfs[i][2]


\* C15 (as stated): after any sequence of operations, addVRF calls with
\* arbitrary names and table IDs included, the VRF 'default' exists and its
\* table ID is 0
C15_DefaultVrf ==
    "default" \in DOMAIN vrfDict /\ vrfDict["default"] = DefaultTable

\* how often vni occurs in the VNI sets of the first k VRFs of vrfVniDict:
\* once for an L3 slot holding it, once for each place in an L2 list
RECURSIVE Occurrences(_, _)
Occurrences(vni, k) ==
    IF k = 0 THEN 0
    ELSE LET e == vrfVniDict[k][2]
         IN  Occurrences(vni, k - 1)
             + (IF e[1] = vni THEN 1 ELSE 0)
             + Cardinality({j \in DOMAIN e[2] : e[2][j] = vni})

\* the VNIs the node knows: in some VRF's VNI set, or owning a bridge domain
KnownVnis ==
    {v \in BdVnis : Occurrences(v, Len(vrfVniDict)) > 0}
        \cup DictKeys(bdIntfDict)

\* C16 (as stated): after any sequence of addVRF, addL2VNI and addL3VNI
\* calls, every VNI the node knows is in the VNI set (L3 slot or L2 list) of
\* exactly one VRF, and is there once
C16_VniInOneVrf ==
    \A v \in KnownVnis : Occurrences(v, Len(vrfVniDict)) = 1


\* C17: every VRF has one L3 slot holding at most one VNI; addL3VNI on a VRF,
\* whether or not the slot is taken, leaves the given VNI in the slot (the
\* last write wins) and leaves that VRF's L2 list and every other VRF's VNI
\* set as they were
C17_L3LastWriteWins ==
    /\ [](\A i, j \in DOMAIN vrfVniDict :
             /\ vrfVniDict[i][1] = vrfVniDict[j][1] => i = j
             /\ vrfVniDict[i][2][1] \in BdVnis \cup {NoneVal})
    /\ [][\A v \in BdVnis, n \in VrfNames :
             (AddL3VNI(v, n) /\ raised' = "none") =>
                 /\ DictGet(vrfVniDict', n) = <<v, DictGet(vrfVniDict, n)[2]>>
                 /\ DictKeys(vrfVniDict') = DictKeys(vrfVniDict)
                 /\ \A m \in DictKeys(vrfVniDict) \ {n} :
                        DictGet(vrfVniDict', m) = DictGet(vrfVniDict, m)]_vars

\* an L3 VNI was replaced; two VRFs hold an L3 VNI each, one L2 VNIs as well
C17_Witness ==
    /\ l3Replaced
    /\ DictHas(vrfVniDict, "default") /\ DictHas(vrfVniDict, "red")
    /\ DictGet(vrfVniDict, "default")[1] = 200
    /\ DictGet(vrfVniDict, "default")[2] # <<>>
    /\ DictGet(vrfVniDict, "red")[1] = 100


\* the bridge domains whose membership list holds interface o
DomainsOf(o) ==
    {bdIntfDict[i][1] : i \in {k \in DOMAIN bdIntfDict :
                                 o \in Range(bdIntfDict[k][2])}}

\* C18 (as stated): an interface is a member of at most one bridge domain;
\* after attaching it to b1 and then to b2 it is in b2's list only
C18_OneBridgeDomain ==
    \A o \in DOMAIN objs :
        /\ Cardinality(DomainsOf(o)) <= 1
        /\ DomainsOf(o) \subseteq {objs[o].bdi}


\* the bridge interface registered for vni
BridgeOf(vni) == nameToIntf[BrName(vni)]

\* vni is a VNI created by addL2VNI(vni, ..., vrf): the registered bridge
\* interface carries the call's tags and the call recorded vni in vrf's L2
\* list (the last addL2VNI call for vni named vrf and returned normally)
CreatedL2(vni, vrf) ==
    /\ BrName(vni) \in DOMAIN nameToIntf
    /\ objs[BridgeOf(vni)].vrf = vrf
    /\ objs[BridgeOf(vni)].bdi = vni
    /\ DictHas(vrfVniDict, vrf)
    /\ vni \in Range(DictGet(vrfVniDict, vrf)[2])

\* C19: attachIntfToL2VNI(i, vni) on a VNI created by addL2VNI(vni, ...,
\* vrf=v) returns normally and leaves i with VRF v and BDI vni and in the
\* membership list of bridge domain vni; no other interface's tags change
C19_AttachTags ==
    [][\A n \in IntfNames, vni \in BdVnis, v \in VrfNames :
          (/\ n \in DOMAIN nameToIntf
           /\ CreatedL2(vni, v)
           /\ AttachIntfToL2VNI(n, vni))
          => LET i == nameToIntf[n]
             IN  /\ raised' = "none"
                 /\ objs'[i].vrf = v
                 /\ objs'[i].bdi = vni
                 /\ i \in Range(DictGet(bdIntfDict', vni))
                 /\ \A q \in DOMAIN objs \ {i} : objs'[q] = objs[q]]_vars

\* eth0 is attached to VNI 200 of VRF red; eth1 keeps the tags it had
C19_Witness ==
    /\ CreatedL2(200, "red")
    /\ {"eth0", "eth1"} \subseteq DOMAIN nameToIntf
    /\ objs[nameToIntf["eth0"]].vrf = "red"
    /\ objs[nameToIntf["eth0"]].bdi = 200
    /\ DictHas(bdIntfDict, 200)
    /\ nameToIntf["eth0"] \in Range(DictGet(bdIntfDict, 200))
    /\ objs[nameToIntf["eth1"]].vrf = "default"
    /\ objs[nameToIntf["eth1"]].bdi = NoBDI


\* the interfaces attached to bridge domain bdi: the registered interfaces,
\* bridge interfaces apart, whose last attachIntfToL2VNI named it
Attached(bdi) ==
    {o \in DOMAIN ports : objs[o].name \in IntfNames /\ objs[o].bdi = bdi}

\* C20 (as stated): for every bridge domain the mc_mgrp_add command that
\* setupStartupTables writes lists the ports of exactly the attached
\* interfaces, each port once (in the order of the membership list, which
\* is the order of attachment)
C20_McastPorts ==
    ~Raises(StartupLines) =>
        \A b \in DictKeys(bdIntfDict) :
            \E i \in DOMAIN StartupLines :
                LET l == StartupLines[i]
                IN  /\ l.t = "mc_mgrp_add"
                    /\ l.k = b
                    /\ \A j, k \in DOMAIN l.ps : l.ps[j] = l.ps[k] => j = k
                    /\ Range(l.ps) = {ports[o] : o \in Attached(b)}


\* C21 (as stated): addRoutingConfig(protocol, line) with a protocol appends
\* the line to that protocol's list and leaves the general list unchanged;
\* without a protocol it appends the line to the general list and leaves
\* every protocol's list unchanged; for every line, the empty string included
C21_RoutingByProtocol ==
    [][\A p \in Protocols \cup {NoProtocol}, l \in ConfigLines :
          AddRoutingConfig(p, l) =>
              LET e == [n |-> RoutingCalls + 1, s |-> l]
              IN  IF p # NoProtocol
                  THEN /\ daemonConfigs' =
                              [daemonConfigs EXCEPT ![p] = Append(@, e)]
                       /\ generalConfig' = generalConfig
                  ELSE /\ generalConfig' = Append(generalConfig, e)
                       /\ daemonConfigs' = daemonConfigs]_vars

\* the lists of the accumulator
Accumulators == {generalConfig} \cup Range(daemonConfigs)

\* C22: the text written for a protocol and for the general header holds
\* the accumulated lines in the order of the addRoutingConfig calls that
\* supplied them, each line of each call once, and writing it leaves the
\* accumulator lists unchanged
C22_RoutingOrder ==
    /\ [](/\ \A acc \in Accumulators : \A i, j \in DOMAIN acc :
                 i < j => acc[i].n < acc[j].n
          /\ \A a1, a2 \in Accumulators :
                 \A i \in DOMAIN a1, j \in DOMAIN a2 :
                     a1[i].n = a2[j].n => a1 = a2 /\ i = j)
    /\ [][/\ SetupGeneralConfig =>
                /\ confFiles'[GeneralFile].lines
                     = GeneralHeader \o [i \in DOMAIN generalConfig |->
                                            generalConfig[i].s]
                /\ UNCHANGED <<generalConfig, daemonConfigs>>
          /\ \A p \in Protocols : SetupRoutingConfigByProtocol(p) =>
                /\ confFiles'[p].lines
                     = [i \in DOMAIN daemonConfigs[p] |->
                           daemonConfigs[p][i].s]
                /\ UNCHANGED <<generalConfig, daemonConfigs>>]_vars

\* both files are written from lists that hold lines of several calls
C22_Witness ==
    /\ Len(generalConfig) = 1 /\ Len(daemonConfigs["zebra"]) = 2
    /\ confFiles[GeneralFile].exists
    /\ Len(confFiles[GeneralFile].lines) = Len(GeneralHeader) + 1
    /\ confFiles["zebra"].exists
    /\ Len(confFiles["zebra"].lines) = 2


\* the entry of the example call
AclExample ==
    <<"10.0.0.1", "0&&&0", "6&&&0xff", "80&&&0xffff", "0&&&0", "0&&&0",
      "0&&&0">>

\* C23: addACLConfig appends exactly one entry of seven fields [dst, src,
\* protocol, tcpDst, tcpSrc, udpDst, udpSrc]; a field that is not given is
\* "0&&&0"; an integer protocol p is "p&&&0xff"; with protocol 6 integer
\* ports are "n&&&0xffff" in fields 3 and 4 (counted from 0) and fields 5
\* and 6 stay wildcard; with protocol 17 they are in fields 5 and 6 and
\* fields 3 and 4 stay wildcard; the example call gives the example entry
C23_AclEntry ==
    [][\A d, a \in AclAddrs, pr \in AclProtocols, dp, sp \in AclPorts :
          AddACLConfig(d, a, pr, dp, sp) =>
              LET e == aclConfig'[Len(aclConfig')]
                  wild == "0&&&0"
                  port(x, y) == /\ x = None => y = wild
                                /\ x.t = "int" =>
                                       y = ToString(x.i) \o "&&&0xffff"
              IN  /\ Len(aclConfig') = Len(aclConfig) + 1
                  /\ SubSeq(aclConfig', 1, Len(aclConfig)) = aclConfig
                  /\ Len(e) = 7
                  /\ e[1] = IF d = None THEN wild ELSE d.s
                  /\ e[2] = IF a = None THEN wild ELSE a.s
                  /\ pr = None => e[3] = wild
                  /\ pr.t = "int" => e[3] = ToString(pr.i) \o "&&&0xff"
                  /\ pr = IntArg(6) =>
                         /\ port(dp, e[4]) /\ port(sp, e[5])
                         /\ e[6] = wild /\ e[7] = wild
                  /\ pr = IntArg(17) =>
                         /\ port(dp, e[6]) /\ port(sp, e[7])
                         /\ e[4] = wild /\ e[5] = wild
                  /\ (/\ d = StrArg("10.0.0.1") /\ a = None /\ pr = IntArg(6)
                      /\ dp = IntArg(80) /\ sp = None) => e = AclExample]_vars

\* the example entry is in the list
C23_Witness == \E i \in 1..Len(aclConfig) : aclConfig[i] = AclExample

\* what one of the four set-up methods guarantees when it writes file f
\* from the lines ls: the file then holds what a second call would write,
\* a call on a file that already holds it changes nothing, and nothing but
\* the file is written
Deterministic(f, ls) ==
    /\ hostFiles'[f] = File(ls')
    /\ hostFiles[f] = File(ls) => hostFiles'[f] = hostFiles[f]
    /\ \A g \in DOMAIN hostFiles \ {f} : hostFiles'[g] = hostFiles[g]
    /\ UNCHANGED <<regVars, vrfVars, aclConfig>>

\* C24: setupStartupTables, setupACL, setupVrfTable and setupIntfTable
\* write a function of the node's state: a second invocation with no
\* mutation in between writes the same file contents, and none of them
\* changes the interface registry, the VRF / bridge-domain model or the
\* ACL list (a call that changes neither a file nor the exception state
\* changes nothing at all)
C24_MaterializeDeterministic ==
    [][(hostFiles' # hostFiles \/ raised' # raised) =>
          /\ SetupStartupTables =>
                 Deterministic("Startup", Written(StartupLines))
          /\ SetupACL => Deterministic("ACL", ACLLines)
          /\ SetupVrfTable => Deterministic("TableVrfDict", VrfTableLines)
          /\ SetupIntfTable =>
                 Deterministic("IntfPortDict", IntfTableLines)]_vars

\* the four files are written from a state with an interface, a bridge and
\* an ACL rule
C24_Witness ==
    /\ hostFiles["Startup"] = File(StartupLines)
    /\ hostFiles["ACL"] = File(ACLLines) /\ Len(aclConfig) = 1
    /\ hostFiles["TableVrfDict"] = File(VrfTableLines)
    /\ hostFiles["IntfPortDict"] = File(IntfTableLines)
    /\ Len(effIntfs) = 1 /\ Len(bdIntfDict) = 1

\* C25: reading back the lines setupVrfTable and setupIntfTable write
\* gives tableVrfDict and the effective name-to-port map again, and the
\* file has one line per key
C25_LookupRoundTrip ==
    [][hostFiles' # hostFiles =>
          /\ SetupVrfTable =>
                 LET text == VrfTableText(hostFiles'["TableVrfDict"])
                 IN  /\ ParseTable(text, TRUE) = tableVrfDict
                     /\ Len(text) = Cardinality(DictKeys(tableVrfDict))
          /\ SetupIntfTable =>
                 LET text == IntfTableText(hostFiles'["IntfPortDict"])
                 IN  /\ ParseTable(text, FALSE) = effIntfs
                     /\ Len(text) = Cardinality(DictKeys(effIntfs))]_vars

\* both files are written: three routing tables, and two interfaces of
\* which one has an explicit port
C25_Witness ==
    /\ Len(tableVrfDict) = 3
    /\ hostFiles["TableVrfDict"] = File(VrfTableLines)
    /\ Len(effIntfs) = 2
    /\ \E i \in 1..2 : effIntfs[i][2] \in ExplicitPorts
    /\ hostFiles["IntfPortDict"] = File(IntfTableLines)


\* how often call n was written to a shell
RECURSIVE WrittenTimes(_, _)
WrittenTimes(n, k) ==
    IF k = 0 THEN 0
    ELSE Cardinality({i \in 1..Len(shells[k].stdin) : shells[k].stdin[i] = n})
         + WrittenTimes(n, k - 1)

\* C26: when cmd() is called while the container runs and the node's shell
\* process has exited, the dead shell is discarded and a new shell is
\* started before the command is sent, the command is written exactly once
\* and to the new shell, and cmd() returns that command's output and no
\* error
C26_DeadShellRestart ==
    /\ \A n \in 1..MaxCmds : WrittenTimes(n, Len(shells)) <= 1
    /\ (/\ container /\ Len(pending) = 1 /\ pending[1].dead # NoShell
        /\ dpc \in {"send", "wait"}) =>
           /\ shell # NoShell /\ shell > pending[1].dead
           /\ ~shells[pending[1].dead].alive
           /\ dpc = "wait" =>
                  /\ WrittenTimes(pending[1].n, Len(shells)) = 1
                  /\ shells[shell].stdin[Len(shells[shell].stdin)]
                       = pending[1].n
    /\ (result.dead # NoShell /\ result.up) =>
           /\ result.err = "none"
           /\ result.out = result.n
           /\ result.shell > result.dead
           /\ WrittenTimes(result.n, Len(shells)) = 1
           /\ \E i \in 1..Len(shells[result.shell].stdin) :
                  shells[result.shell].stdin[i] = result.n

\* a cmd() that found its shell dead has returned from a newer shell
C26_Witness ==
    /\ result.dead # NoShell /\ result.up /\ result.out = result.n
    /\ result.shell > result.dead

\* C27: when the container removal raises an API error during terminate(),
\* no exception reaches the caller, cleanup still runs, and terminate()
\* returns with the shell released
C27_TerminateApiError ==
    /\ [](term.outcome = "api_error" =>
             /\ term.raised = "none"
             /\ dpc = "idle" => term.cleaned)
    /\ [][(Cleanup /\ term.outcome = "api_error") =>
             /\ shell' = NoShell
             /\ term'.cleaned /\ term'.raised = "none"
             /\ dpc' = "idle"]_vars

\* terminate() has returned after an API error on a node that had a shell
C27_Witness ==
    /\ term.outcome = "api_error" /\ term.cleaned /\ dpc = "idle"
    /\ container /\ shell = NoShell /\ result.n = 1 /\ result.shell # NoShell


C29_EngineNeverReady ==
    /\ [](~engine.ready =>
             /\ pc \notin {"mediator", "wait", "agent", "router"}
             /\ procs["rt_mediator"] = 0 /\ procs["switch_agent"] = 0
             /\ procs["daemons"] = 0
             /\ ~Completed
             /\ raised = "none")
    /\ [][(pc = "loop" /\ ~engine.ready /\ pc' # pc) => pc' = "Startup"]_vars

\* the loop has run every attempt the bound allows and the engine is still
\* not ready
C29_Witness ==
    /\ pc = "loop" /\ ~engine.ready /\ Attempts = MaxAttempts
    /\ procs["bmv2"] > 0 /\ cfg["runtime_api"]

\* C30: the switch-agent launch is a background command: start() goes on
\* to the routing daemons at once and they start whether or not the agent
\* is ready
C30_NoAgentWait ==
    /\ [](pc = "router" => ENABLED RouterStart)
    /\ [][StartAgent => pc' = "router"]_vars

\* start() has completed and the switch agent it launched is not ready
C30_Witness ==
    /\ Completed /\ cfg["switch_agent"] /\ procs["switch_agent"] > 0
    /\ procs["daemons"] > 0 /\ ~agentReady

\* the same on a node whose subnet table was written before start()
StartTerminatesWithSubnet ==
    (/\ pc = "loop" /\ engine.ready /\ cfg["runtime_api"]
     /\ ctrFiles.cmds["Subnet"].exists
     /\ Attempts < MaxAttempts) ~> Completed


\* start() gets past the installation loop only on a node whose subnet
\* command file is in the container, whatever the number of attempts
PastLoopOnlyWithSubnet ==
    (pc \in {"mediator", "wait", "agent", "router"} \/ Completed) =>
        ctrFiles.cmds["Subnet"].exists


\* the value the command line gives an option, "" when it is not there
OptionOf(cmd, flag) ==
    IF \E i \in 1..Len(cmd.opts) : cmd.opts[i][1] = flag
    THEN cmd.opts[CHOOSE i \in 1..Len(cmd.opts) : cmd.opts[i][1] = flag][2]
    ELSE ""

\* C31 (as stated): whenever a route mediator is configured, the command
\* start() launches it with carries the report-collector IP and port that
\* setAdminConfig stored last and the two lookup-file paths, for
\* start(debug=False) and for start(debug=True)
C31_MediatorOptions ==
    [][(StartMediator /\ cfg["rt_mediator"]) =>
          /\ OptionOf(mediatorCmd', "--report-server-ip") = Format(admin.ip)
          /\ OptionOf(mediatorCmd', "--report-server-port")
               = Format(admin.port)
          /\ OptionOf(mediatorCmd', "--table-vrf-file") = "/tmp/TableVrfDict"
          /\ OptionOf(mediatorCmd', "--intf-port-file")
               = "/tmp/IntfPortDict"]_vars


\* how many lines of the written startup table are entries of table t
\* with key k
EntriesOf(f, t, k) ==
    Cardinality({i \in 1..Len(f.lines) :
                    f.lines[i].t = t /\ f.lines[i].k = k})

\* how many VRFs record v as their L3 VNI / how many (VRF, position) pairs
\* of the L2 lists record v
L3Recorded(v) ==
    Cardinality({i \in 1..Len(vrfVniDict) : vrfVniDict[i][2][1] = v})
L2Recorded(v) ==
    Cardinality({p \in (1..Len(vrfVniDict)) \X (1..MaxBdObjs) :
                    /\ p[2] <= Len(vrfVniDict[p[1]][2][2])
                    /\ vrfVniDict[p[1]][2][2][p[2]] = v})

\* C32 (as stated): the startup table setupStartupTables writes holds
\* exactly one VXLAN-decapsulation entry for each L3 VNI and each L2 VNI
\* association recorded in the VRF model, and no decapsulation entry for a
\* VRF that has no L3 VNI
C32_DecapEntries ==
    [][SetupStartupTables /\ raised' = "none" =>
          /\ \A v \in Vnis \cup BdVnis :
                /\ EntriesOf(hostFiles'["Startup"], "l3vxlan_decap", v)
                     = L3Recorded(v)
                /\ EntriesOf(hostFiles'["Startup"], "l2vxlan_decap", v)
                     = L2Recorded(v)
          /\ EntriesOf(hostFiles'["Startup"], "l3vxlan_decap", NoneVal) = 0
      ]_vars

\* the part of C32 that the code keeps: one entry per recorded L3 VNI and
\* per recorded L2 association
DecapEntriesOfRecordedVnis ==
    [][SetupStartupTables /\ raised' = "none" =>
          \A v \in Vnis \cup BdVnis :
             /\ EntriesOf(hostFiles'["Startup"], "l3vxlan_decap", v)
                  = L3Recorded(v)
             /\ EntriesOf(hostFiles'["Startup"], "l2vxlan_decap", v)
                  = L2Recorded(v)]_vars


\* C33 (as stated): setupVrfTable writes the lines of TableVrfDict in
\* ascending table-ID order, whatever the order the mappings were built in
C33_AscendingTableIds ==
    [][SetupVrfTable =>
          LET ls == hostFiles'["TableVrfDict"].lines
          IN  \A i, j \in 1..Len(ls) : i < j => ls[i].k < ls[j].k]_vars

\* what the code does instead: the lines follow the order in which the keys
\* were first inserted into tableVrfDict
VrfTableInInsertionOrder ==
    [][SetupVrfTable =>
          LET ls == hostFiles'["TableVrfDict"].lines
          IN  /\ Len(ls) = Len(tableVrfDict)
              /\ \A i \in 1..Len(ls) : ls[i].k = tableVrfDict[i][1]]_vars


\* a set-up method that overwrites: called where the file already holds
\* what a call writes from this state, it leaves every file as it is
WritesTheSame(f, ls) == hostFiles[f] = File(ls) => hostFiles' = hostFiles

\* C34: setupSubnetTable appends, so that before start() the subnet batch
\* is the entries of all calls so far in call order (each call adds its
\* entries after those already there and nothing else touches the batch);
\* setupStartupTables, setupACL, setupVrfTable and setupIntfTable
\* overwrite, so a second call on unchanged state leaves the content of
\* one call
C34_AppendAndOverwrite ==
    [][/\ \A m \in SubnetTables :
             SetupSubnetTable(m) =>
                 hostFiles'["Subnet"] = File(hostFiles["Subnet"].lines \o m)
       /\ hostFiles'["Subnet"] # hostFiles["Subnet"] =>
             \E m \in SubnetTables : SetupSubnetTable(m)
       /\ SetupStartupTables =>
             WritesTheSame("Startup", Written(StartupLines))
       /\ SetupACL => WritesTheSame("ACL", ACLLines)
       /\ SetupVrfTable => WritesTheSame("TableVrfDict", VrfTableLines)
       /\ SetupIntfTable => WritesTheSame("IntfPortDict", IntfTableLines)
      ]_vars

\* two calls of setupSubnetTable with different entries were made, and the
\* overwriting files hold the content of a call on the present state
C34_Witness ==
    /\ Len(hostFiles["Subnet"].lines) = 2
    /\ hostFiles["Subnet"].lines[1] # hostFiles["Subnet"].lines[2]
    /\ hostFiles["ACL"] = File(ACLLines) /\ Len(aclConfig) = 1
    /\ hostFiles["Startup"] = File(StartupLines) /\ Len(effIntfs) = 1
    /\ hostFiles["TableVrfDict"] = File(VrfTableLines)
    /\ hostFiles["IntfPortDict"] = File(IntfTableLines)


C36_SeedKept ==
    /\ [](/\ DictHas(tableVrfDict, MainTable)
          /\ DictGet(tableVrfDict, MainTable) = 0
          /\ DictHas(tableVrfDict, LocalTable)
          /\ DictGet(tableVrfDict, LocalTable) = 0)
    /\ [][/\ DictKeys(tableVrfDict) \subseteq DictKeys(tableVrfDict')
          /\ \A n \in VrfNames, t \in SeedTableIds :
                AddVRF(n, t) => /\ DictHas(tableVrfDict', t)
                                /\ DictGet(tableVrfDict', t) = t]_vars

\* the part of C36 that holds for every table ID: no key is removed and
\* addVRF(name, t) leaves t -> t; the seed is kept by every addVRF whose
\* table ID is not a seeded one
TableMapGrows ==
    [][/\ DictKeys(tableVrfDict) \subseteq DictKeys(tableVrfDict')
       /\ \A n \in VrfNames, t \in SeedTableIds :
             AddVRF(n, t) =>
                /\ DictHas(tableVrfDict', t) /\ DictGet(tableVrfDict', t) = t
                /\ \A k \in DictKeys(tableVrfDict) \ {t} :
                      DictGet(tableVrfDict', k) = DictGet(tableVrfDict, k)
      ]_vars


\* the keys of the entries of table t in the written startup table
KeysOf(f, t) ==
    {f.lines[i].k : i \in {j \in 1..Len(f.lines) : f.lines[j].t = t}}

\* C37 (as stated): after any sequence of addIntf calls the ports bound to
\* the forwarding engine are pairwise distinct: no Effective Interface has
\* the port cpu_input_port or cpu_output_port, and the startup table never
\* holds two SrcMac_RW or two SetVrf_Virtual entries for one port
C37_DistinctEnginePorts ==
    /\ \A i \in 1..Len(effIntfs) :
          effIntfs[i][2] \notin {cpu_input_port, cpu_output_port}
    /\ \A t \in {"SrcMac_RW", "SetVrf_Virtual"} :
          \A k \in KeysOf(hostFiles["Startup"], t) :
             EntriesOf(hostFiles["Startup"], t, k) <= 1


\* the L2 VNIs recorded in the L2 lists of all VRFs
RecordedL2Vnis ==
    UNION {{vrfVniDict[i][2][2][j] : j \in 1..Len(vrfVniDict[i][2][2])} :
              i \in 1..Len(vrfVniDict)}

\* C38 (as stated): after any sequence of addVRF, addL2VNI, addL3VNI and
\* attachIntfToL2VNI calls, vrfDict and vrfVniDict have the same keys, and
\* the keys of bdIntfDict are the L2 VNIs recorded in the VRFs' L2 lists
C38_VrfAndBdKeys ==
    /\ DOMAIN vrfDict = DictKeys(vrfVniDict)
    /\ DictKeys(bdIntfDict) = RecordedL2Vnis

\* the part of C38 that holds: the two VRF maps have the same keys, and
\* every recorded L2 VNI has its bridge domain
VrfKeysAgree ==
    /\ DOMAIN vrfDict = DictKeys(vrfVniDict)
    /\ RecordedL2Vnis \subseteq DictKeys(bdIntfDict)


\* the router's model: the interface registry, the Effective Interface
\* Set, the VRF maps and the bridge domains
RouterModel ==
    <<objs, intfs, ports, nameToIntf, effIntfs, vrfDict, tableVrfDict,
      vrfVniDict, bdIntfDict>>

\* C39 (as stated): addL2VNI or addL3VNI naming a VRF that was never added
\* fails, and the router's model is then as before the call: no interface
\* registered, no VNI recorded, no bridge domain created, the Effective
\* Interface Set unchanged
C39_FailedVniCallChangesNothing ==
    [][\A v \in BdVnis, n \in VrfNames :
          (AddL2VNI(v, n) \/ AddL3VNI(v, n)) /\ ~DictHas(vrfVniDict, n) =>
              raised' = "KeyError" /\ UNCHANGED RouterModel]_vars

\* the part of C39 that holds: both calls fail, no VNI is recorded and no
\* bridge domain is created, and addL3VNI leaves the whole model as it was
FailedVniCallRecordsNothing ==
    [][\A v \in BdVnis, n \in VrfNames :
          /\ (AddL2VNI(v, n) \/ AddL3VNI(v, n)) /\ ~DictHas(vrfVniDict, n) =>
                /\ raised' = "KeyError"
                /\ UNCHANGED <<vrfDict, tableVrfDict, vrfVniDict, bdIntfDict>>
          /\ AddL3VNI(v, n) /\ ~DictHas(vrfVniDict, n) =>
                UNCHANGED RouterModel]_vars


\* C40 (as stated): when Docker.terminate() returns the node's shell is
\* released, whether the container was running or had already stopped when
\* terminate() was called
C40_TerminateReleasesShell ==
    [][(Terminate \/ Cleanup) /\ dpc' = "idle" => shell' = NoShell]_vars

\* the part of C40 that holds: a terminate() that found the container
\* running returns through cleanup, with the shell released
TerminateOfRunningReleasesShell ==
    [][(Terminate \/ Cleanup) /\ dpc' = "idle"
          /\ term'.outcome # "not_running" =>
             shell' = NoShell /\ term'.cleaned]_vars

====
